---- MODULE Spec2Model ----
(***************************************************************************)
(* A model of the fchatlib protocol engine (src/src/FChatLib.ts, the       *)
(* websocket variant at lines 1942-2730), its per-channel command router   *)
(* (CommandHandler, src/unnamed/part_001) and the plugin host              *)
(* (src/src/CommandHandlerHelper.ts).                                      *)
(*                                                                         *)
(* The engine is one object; its parts are checked under several           *)
(* specifications that share the variables below:                          *)
(*   SpecThrottle  sendData, the outbound flood control                    *)
(*   SpecDispatch  the websocket 'message' handler and its listeners       *)
(*   SpecPlugins   plugin load / unload / load-on-start and the save file  *)
(*   SpecFuncs     internalGetAllFuncs, the command discovery              *)
(*   SpecAuth      the operator table, isUserChatOP and isUserMaster       *)
(*   SpecConn      connect, the ticket request, the transport's events,    *)
(*                 restart and disconnect                                  *)
(*   SpecReconnect the same without traffic, timers and requests complete  *)
(*   SpecSend      sendCommand while the transport comes and goes          *)
(*   SpecRouter    commandListener, processCommand and the built-in        *)
(*                 commands                                                *)
(*   SpecRoster    the channel rosters under ICH, JCH, LCH and FLN frames  *)
(*   SpecUsers     the user directory under LIS, STA and FLN frames        *)
(*   SpecListeners registration and removal of listeners                   *)
(*   SpecStart     the constructor's default room and the CONNECTED joins  *)
(*   SpecInvites   gdisableinvites, genableinvites and invites             *)
(*   SpecFrames    inbound frames and the handler's error report           *)
(*   SpecRosterOps the rosters and the operator table under ICH, JCH, LCH, *)
(*                 FLN, COL, COA and COR frames                            *)
(*   SpecMasterCommands the built-in commands reserved to the master       *)
(* Under each specification the variables of the parts it does not run     *)
(* keep the value construction gave them.                                  *)
(***************************************************************************)
EXTENDS Integers, Sequences, FiniteSets, TLC

\* ------------------------------------------------------------------ bounds
MaxTime == 5
MaxSends == 4
MaxFlood == 1
MaxListeners == 2
MaxClassDepth == 1
MaxOps == 4

\* ------------------------------------------------------------------ state
VARIABLES
  \* outbound throttler (FChatLib fields)
  now,                      \* parseInt(process.uptime()): whole seconds
  floodLimit,
  lastTimeCommandReceived,
  commandsInQueue,
  calls,                    \* history of the sendData calls: id -> record
  dispatched,               \* the times at which sendData reached sendCommand
  floodChanged,             \* history: floodLimit was reassigned since construction
  burst,                    \* history: length of the current back-to-back burst
  \* inbound dispatcher (FChatLib fields and the 'message' handler)
  commandListeners,         \* command type -> list of listeners
  genericEventListeners,    \* list of listeners
  handler,                  \* the latest activation of the 'message' handler
  \* command discovery (CommandHandlerHelper.internalGetAllFuncs)
  obj,                      \* the object handed to internalGetAllFuncs
  funcs,                    \* what it returned, once it has
  \* plugin host (FChatLib.channels, FChatLib.commandHandlers, the save file)
  channels,                 \* channel name -> list of IPlugin
  commandHandlers,          \* key -> CommandHandler
  saveFile,                 \* the persisted mapping: channel name -> plugin names
  lastOps,                  \* history: what the last operation did, per handler touched
  prevLoad,                 \* history: the load that an unload directly followed
  opCount,                  \* history: how many plugin-host operations have run
  \* authorization (FChatLib.config.master, FChatLib.chatOPsInChannel)
  master,                   \* config.master
  chatOPsInChannel,         \* channel -> list of operator identities
  asked,                    \* history: the last isUserMaster / isUserChatOP answers
  \* connection (FChatLib.ws, pingInterval, timers, the process)
  autoJoinOnInvite,         \* config.autoJoinOnInvite
  terminated,               \* the process has exited
  sockets,                  \* every WebSocket created so far: id -> record
  ws,                       \* this.ws: a socket id, or 0 for null
  timers,                   \* every setTimeout made by the connection code
  tickets,                  \* every connect() call with its getTicket request
  registered,               \* built-in listeners in commandListeners: how many of each
  pingInterval,             \* this.pingInterval is set
  intervals,                \* history: the setInterval timers of the open handlers
  writes,                   \* history: number of ws.send calls
  sent,                     \* history: the last sendCommand call
  \* command router (FChatLib.commandListener, CommandHandler.processCommand)
  routed,                   \* history: what the last channel message led to
  \* rosters and user directory (FChatLib.usersInChannel, channelNames, users)
  usersInChannel,           \* channel -> list of identities
  channelNames,             \* channel -> title
  users,                    \* the own entries of this.users: name -> tuple
  inherited,                \* what was written on values this.users inherits
  lastEvent,                \* history: the last roster or directory event
  listenerLog,              \* history: the last two listener (de)registrations
  startup,                  \* history: the save file read, the joins of CONNECTED
  inviteLog                 \* history: the last invite toggle and invite

throttleVars ==
  <<now, floodLimit, lastTimeCommandReceived, commandsInQueue, calls,
    dispatched, floodChanged, burst>>

dispatchVars == <<commandListeners, genericEventListeners, handler>>

funcVars == <<obj, funcs>>

pluginVars == <<channels, commandHandlers, saveFile, lastOps, prevLoad, opCount>>

authVars == <<master, chatOPsInChannel, asked>>

connVars ==
  <<autoJoinOnInvite, terminated, sockets, ws, timers, tickets, registered,
    pingInterval, intervals, writes, sent>>

routerVars == <<routed>>

\* the parts added to the engine's model after the first four
rosterVars == <<usersInChannel, channelNames, users, inherited, lastEvent>>

\* the parts added after the router
laterVars == <<rosterVars, listenerLog, startup, inviteLog>>

restVars == <<authVars, connVars, routerVars, laterVars>>

vars == <<throttleVars, dispatchVars, funcVars, pluginVars, restVars>>

\* what the operations of one part leave alone
notThrottle == <<dispatchVars, funcVars, pluginVars, restVars>>
notDispatch == <<throttleVars, funcVars, pluginVars, restVars>>
notFuncs == <<throttleVars, dispatchVars, pluginVars, restVars>>
notPlugins == <<throttleVars, dispatchVars, funcVars, restVars>>
notAuth == <<throttleVars, dispatchVars, funcVars, pluginVars, connVars, routerVars, laterVars>>

\* ---------------------------------------------------------------- helpers
Range(s) == {s[i] : i \in DOMAIN s}

Max(a, b) == IF a >= b THEN a ELSE b

\* the JavaScript value undefined, where a record or a list is expected
Undefined == [undefined |-> TRUE]

\* ================================================================
\* OutboundThrottler: FChatLib.sendData
\* ================================================================

\* Stand-in for Number.MAX_VALUE, the initial lastTimeCommandReceived. Every
\* value above the largest setTimeout delay behaves alike: a double absorbs
\* the small terms added to it, and the resulting delay overflows.
NumberMaxValue == 2000000000

\* setTimeout(resolve, ms), in whole seconds. Node replaces a delay that is
\* not within 1 .. 2^31-1 ms by 1 ms, which is within the current second.
timeout(seconds) ==
  IF seconds >= 1 /\ seconds <= 2147483647 \div 1000 THEN seconds ELSE 0

\* a plausible slip: the wait ignores the calls already suspended
timeToWait_ignoresQueue(queued, elapsed) == floodLimit - elapsed

\* a plausible slip: the wait is computed before the call counts itself
timeToWait_beforeCount(queued, elapsed) == (queued - 1) * floodLimit - elapsed

\* const timeToWait = this.commandsInQueue * this.floodLimit - timeElapsedSinceLastCommand
timeToWait(queued, elapsed) == queued * floodLimit - elapsed

Waiting == {id \in DOMAIN calls : calls[id].state = "waiting"}

\* "a send has just been dispatched (elapsed = 0, nothing pending)"
JustDispatched == lastTimeCommandReceived = now /\ commandsInQueue = 0

\* sendData, from its entry to its first suspension (or to its end when it
\* does not wait).
sendData ==
  /\ Len(calls) < MaxSends
  /\ LET queued  == commandsInQueue + 1
         elapsed == now - lastTimeCommandReceived
         k       == IF JustDispatched THEN 1
                    ELSE IF burst > 0 THEN burst + 1 ELSE 0
     IN  /\ burst' = k
         /\ IF elapsed < floodLimit
            THEN LET w == timeToWait(queued, elapsed)
                 IN  /\ calls' = Append(calls,
                          [state |-> "waiting", calledAt |-> now, wait |-> w,
                           due |-> now + timeout(w), burstK |-> k,
                           F |-> floodLimit, sentAt |-> -1, waited |-> TRUE,
                           queued |-> queued, elapsed |-> elapsed])
                     /\ commandsInQueue' = queued
                     /\ UNCHANGED <<lastTimeCommandReceived, dispatched>>
            ELSE /\ calls' = Append(calls,
                          [state |-> "sent", calledAt |-> now, wait |-> 0,
                           due |-> now, burstK |-> k,
                           F |-> floodLimit, sentAt |-> now, waited |-> FALSE,
                           queued |-> queued, elapsed |-> elapsed])
                 /\ lastTimeCommandReceived' = now
                 /\ commandsInQueue' = queued - 1
                 /\ dispatched' = Append(dispatched, now)
  /\ UNCHANGED <<now, floodLimit, floodChanged>>

\* a caller's sendData(command, content)
SendData ==
  /\ sendData
  /\ UNCHANGED notThrottle

\* a plausible slip: the resumed call dispatches without leaving the queue
SendDataResume_keepsCount(id) ==
  /\ id \in Waiting
  /\ now >= calls[id].due
  /\ lastTimeCommandReceived' = now
  /\ calls' = [calls EXCEPT ![id].state = "sent", ![id].sentAt = now]
  /\ dispatched' = Append(dispatched, now)
  /\ burst' = 0
  /\ UNCHANGED <<now, floodLimit, floodChanged, commandsInQueue>>
  /\ UNCHANGED notThrottle

\* sendData resumes after `await this.timeout(...)`: the timer of call id fired.
SendDataResume(id) ==
  /\ id \in Waiting
  /\ now >= calls[id].due
  /\ lastTimeCommandReceived' = now
  /\ commandsInQueue' = commandsInQueue - 1
  /\ calls' = [calls EXCEPT ![id].state = "sent", ![id].sentAt = now]
  /\ dispatched' = Append(dispatched, now)
  /\ burst' = 0
  /\ UNCHANGED <<now, floodLimit, floodChanged>>
  /\ UNCHANGED notThrottle

\* The uptime clock passes a whole second. Timers are punctual: every timer
\* due in the current second fires before the clock shows the next one.
Tick ==
  /\ now < MaxTime
  /\ \A id \in Waiting : calls[id].due > now
  /\ now' = now + 1
  /\ burst' = 0
  /\ UNCHANGED <<floodLimit, lastTimeCommandReceived, commandsInQueue, calls,
                 dispatched, floodChanged>>
  /\ UNCHANGED notThrottle

\* VAR {"variable":"msg_flood","value":v}: this.floodLimit = Number(args.value)
variableChangeHandler(v) ==
  /\ v # floodLimit
  /\ floodLimit' = v
  /\ floodChanged' = TRUE
  /\ burst' = 0
  /\ UNCHANGED <<now, lastTimeCommandReceived, commandsInQueue, calls, dispatched>>
  /\ UNCHANGED notThrottle

InitThrottle ==
  /\ now = 0
  /\ floodLimit = 2
  /\ lastTimeCommandReceived = NumberMaxValue
  /\ commandsInQueue = 0
  /\ calls = << >>
  /\ dispatched = << >>
  /\ floodChanged = FALSE
  /\ burst = 0

\* ================================================================
\* CommandDispatcher: listener lists and the websocket 'message' handler
\* ================================================================

\* The registry of server commands (FchatServerCommands) maps a verb to its
\* command object. Three of its entries stand for the three kinds there are:
\* a command with an object payload, an argumentless command, and ERR, the
\* protocol's own error notification.
KnownVerbs == {"MSG", "PIN", "ERR"}

UnknownVerbs == {"ZZZ"}

Verbs == KnownVerbs \cup UnknownVerbs

\* schema kind of a registered verb: an object shape, or z.undefined()
SchemaOf(verb) == IF verb = "PIN" THEN "undefined" ELSE "object"

getCommandObjectForCommand(verb) ==
  IF verb \in KnownVerbs THEN [type |-> verb, schema |-> SchemaOf(verb)]
  ELSE Undefined

\* The text after the verb:
\*   "none"   nothing (or only blanks) follows the verb
\*   "bad"    text that is not JSON
\*   "null"   JSON of a falsy value (null, 0, false, "")
\*   "good"   a JSON object of the shape the verb's object schema describes
\*   "wrong"  a JSON object of another shape
Remainders == {"none", "bad", "null", "good", "wrong"}

\* if (argumentString.length > 0) argument = JSON.parse(argumentString)
\* "throws" stands for the SyntaxError of JSON.parse.
ParseArgument(rem) ==
  CASE rem = "none" -> "undefined"
    [] rem = "bad"  -> "throws"
    [] OTHER        -> rem

Truthy(argument) == argument \in {"good", "wrong"}

\* Validator: schema.safeParse(value).success
SafeParse(schema, value) ==
  \/ schema = "object" /\ value = "good"
  \/ schema = "undefined" /\ value = "undefined"

\* const parsed = argument ? commandObject.schema.safeParse(argument)
\*                         : { success: true, data: undefined, error: undefined }
parsedSuccess(schema, argument) ==
  IF Truthy(argument) THEN SafeParse(schema, argument) ELSE TRUE

Fns == {"f", "g"}

\* What one invocation of a listener does: it returns (void), it throws, or
\* it returns a promise that settles later.
Outcomes == {"returns", "throws", "promise"}

TotalListeners ==
  Len(genericEventListeners)
    + Len(commandListeners["MSG"]) + Len(commandListeners["PIN"])
    + Len(commandListeners["ERR"])

IndexOf(list, fn) ==
  IF \E i \in DOMAIN list : list[i] = fn
  THEN (CHOOSE i \in DOMAIN list : list[i] = fn /\ \A j \in 1..(i-1) : list[j] # fn)
  ELSE -1

\* list.splice(index, 1) for an index within the list
Splice1(list, index) ==
  [i \in 1..(Len(list) - 1) |-> IF i < index THEN list[i] ELSE list[i+1]]

addCommandListener(command, fn) ==
  /\ TotalListeners < MaxListeners
  /\ commandListeners' = [commandListeners EXCEPT ![command] = Append(@, fn)]
  /\ UNCHANGED <<genericEventListeners, handler>>
  /\ UNCHANGED notDispatch

removeCommandListener(command, fn) ==
  /\ LET index == IndexOf(commandListeners[command], fn)
     IN  commandListeners' =
           IF index # -1
           THEN [commandListeners EXCEPT ![command] = Splice1(@, index)]
           ELSE commandListeners
  /\ UNCHANGED <<genericEventListeners, handler>>
  /\ UNCHANGED notDispatch

addGenericEventListener(fn) ==
  /\ TotalListeners < MaxListeners
  /\ genericEventListeners' = Append(genericEventListeners, fn)
  /\ UNCHANGED <<commandListeners, handler>>
  /\ UNCHANGED notDispatch

removeGenericEventListener(fn) ==
  /\ LET index == IndexOf(genericEventListeners, fn)
     IN  genericEventListeners' =
           IF index # -1 THEN Splice1(genericEventListeners, index)
           ELSE genericEventListeners
  /\ UNCHANGED <<commandListeners, handler>>
  /\ UNCHANGED notDispatch

\* listeners.map((listener) => listener.call(this, arg)): the listeners are
\* called in list order; a listener that throws ends the map, so the ones
\* after it are not called. out[i] is what the i-th listener does.
FirstThrow(list, out) ==
  IF \E i \in DOMAIN list : out[i] = "throws"
  THEN (CHOOSE i \in DOMAIN list :
          out[i] = "throws" /\ \A j \in 1..(i-1) : out[j] # "throws")
  ELSE 0

\* the number of listeners of the list that map calls
MapCalled(list, out) ==
  IF FirstThrow(list, out) = 0 THEN Len(list) ELSE FirstThrow(list, out)

\* invoked[i] is what the call of list[i] gave: a value, a throw, or a
\* promise (pending, then settled: allSettled does not tell a fulfilled
\* promise from a rejected one, and nothing else reads it).
Invocations(list, out) ==
  [i \in 1..MapCalled(list, out) |->
     CASE out[i] = "promise" -> "pending"
       [] out[i] = "throws"  -> "thrown"
       [] OTHER              -> "value"]

\* One activation of the handler: the frame, the list it mapped over (kind:
\* "generic" or "typed", n: its length when the frame arrived), the argument
\* the listeners were given, the calls made, where the handler stands, and
\* whether it reported an error to the master.
Activation(verb, rem, kind, n, arg, invoked, pc, reported) ==
  [verb |-> verb, rem |-> rem, kind |-> kind, n |-> n, arg |-> arg,
   invoked |-> invoked, pc |-> pc, reported |-> reported]

Idle == Activation("", "none", "none", 0, "undefined", << >>, "idle", FALSE)

\* a plausible slip: errors of the ERR command are reported as well
ShouldReport_always(verb) == TRUE

\* if (this.config.master && command !== fchatServerCommandTypes.ERROR)
\*   void this.sendPrivMessage(..., this.config.master)
\* config.master is never empty.
ShouldReport(verb) == verb # "ERR"

\* the list the handler maps over for a verb
ListenersFor(verb) ==
  IF verb \in KnownVerbs THEN commandListeners[verb] ELSE genericEventListeners

\* The 'message' handler, from the arrival of the frame `verb rem` to its
\* first suspension at `await Promise.allSettled(...)`, or to its end.
\* On catch (error) the error is logged and, unless the verb is ERR, reported
\* to the master by private message, a sendData call.
\* Activations share nothing but the listener lists, so one is followed at a
\* time: the latest. A frame may arrive while the previous activation waits.
OnMessage(verb, rem, out) ==
  /\ LET argument == ParseArgument(rem)
         commandObject == getCommandObjectForCommand(verb)
         list == ListenersFor(verb)
         n == Len(list)
         threw == FirstThrow(list, out) # 0
         act ==
           IF argument = "throws"
           THEN Activation(verb, rem, "none", n, "undefined", << >>, "done",
                           ShouldReport(verb))
           ELSE IF commandObject = Undefined
           THEN Activation(verb, rem, "generic", n, "dataString", Invocations(list, out),
                           IF threw THEN "done" ELSE "awaiting",
                           threw /\ ShouldReport(verb))
           ELSE IF ~parsedSuccess(commandObject.schema, argument)
           THEN Activation(verb, rem, "none", n, argument, << >>, "done", FALSE)
           ELSE Activation(verb, rem, "typed", n, argument, Invocations(list, out),
                           IF threw THEN "done" ELSE "awaiting",
                           threw /\ ShouldReport(verb))
     IN  /\ handler' = act
         /\ IF act.reported THEN sendData ELSE UNCHANGED throttleVars
  /\ UNCHANGED <<commandListeners, genericEventListeners>>
  /\ UNCHANGED <<funcVars, pluginVars, restVars>>

\* a promise returned by a listener settles
Settle(i) ==
  /\ i \in DOMAIN handler.invoked
  /\ handler.invoked[i] = "pending"
  /\ handler' = [handler EXCEPT !.invoked[i] = "settled"]
  /\ UNCHANGED <<commandListeners, genericEventListeners>>
  /\ UNCHANGED notDispatch

\* Promise.allSettled resolves once no promise is pending; the handler ends.
OnMessageResume ==
  /\ handler.pc = "awaiting"
  /\ \A i \in DOMAIN handler.invoked : handler.invoked[i] # "pending"
  /\ handler' = [handler EXCEPT !.pc = "done"]
  /\ UNCHANGED <<commandListeners, genericEventListeners>>
  /\ UNCHANGED notDispatch

InitDispatch ==
  /\ commandListeners = [c \in KnownVerbs |-> << >>]
  /\ genericEventListeners = << >>
  /\ handler = Idle

NextDispatch ==
  \/ \E c \in KnownVerbs, fn \in Fns : addCommandListener(c, fn)
  \/ \E c \in KnownVerbs, fn \in Fns : removeCommandListener(c, fn)
  \/ \E fn \in Fns : addGenericEventListener(fn)
  \/ \E fn \in Fns : removeGenericEventListener(fn)
  \/ \E verb \in Verbs, rem \in Remainders :
       \E out \in [DOMAIN ListenersFor(verb) -> Outcomes] : OnMessage(verb, rem, out)
  \/ \E i \in 1..MaxListeners : Settle(i)
  \/ OnMessageResume

\* ================================================================
\* Command discovery: CommandHandlerHelper.internalGetAllFuncs
\* ================================================================

\* An object is its prototype chain below Object.prototype: chain[1] is the
\* object itself, chain[2] the prototype of its class, chain[3] that of the
\* parent class. A link holds its own properties: fns, the names whose value
\* is a function, and data, the names with any other value. A link with
\* "ignoreProperties" among its data holds the array `ignore` under that name.
Link(fns, data, ignore) == [fns |-> fns, data |-> data, ignore |-> ignore]

\* the property names of the model, in the order Array.prototype.sort gives
\* them (UTF-16 code units)
NameOrder ==
  <<"channel", "constructor", "fChatLibInstance", "hello", "help",
    "ignoreProperties", "processCommand", "randomId", "rng", "secret">>

defaultIgnoreProperties == {"constructor", "processCommand", "ignoreProperties"}

\* the function-valued properties of Object.prototype, among the names above
ObjectPrototypeFns == {"constructor"}

\* Object.getOwnPropertyNames(obj) of a link
OwnNames(link) == link.fns \cup link.data

\* names.sort(), for a list of distinct names
Sort(names) == SelectSeq(NameOrder, LAMBDA p : p \in names)

Holders(chain, j, p) == {k \in j..Len(chain) : p \in OwnNames(chain[k])}

Lowest(ks) == CHOOSE k \in ks : \A m \in ks : k <= m

\* typeof obj[p] === 'function', obj being the j-th link: the property is
\* looked up from that link upwards, Object.prototype last
IsFunction(chain, j, p) ==
  IF Holders(chain, j, p) # {}
  THEN p \in chain[Lowest(Holders(chain, j, p))].fns
  ELSE p \in ObjectPrototypeFns

\* obj.ignoreProperties ?? [], obj being the j-th link
IgnoreProperties(chain, j) ==
  IF Holders(chain, j, "ignoreProperties") # {}
  THEN chain[Lowest(Holders(chain, j, "ignoreProperties"))].ignore
  ELSE {}

\* The do-while loop from the j-th link on. propertyNames is taken once,
\* from the object itself, before the loop.
RECURSIVE WalkUp(_, _, _, _)
WalkUp(chain, j, propertyNames, props) ==
  IF j > Len(chain) THEN props
  ELSE LET ignoreProperties == IgnoreProperties(chain, j) \cup defaultIgnoreProperties
           l == SelectSeq(Sort(propertyNames),
                          LAMBDA p : /\ IsFunction(chain, j, p)
                                     /\ p \notin ignoreProperties
                                     /\ p \notin Range(props))
       IN  WalkUp(chain, j + 1, propertyNames, props \o l)

internalGetAllFuncs(chain) == WalkUp(chain, 1, OwnNames(chain[1]), << >>)

\* The objects of the model: an instance of a class, with or without a
\* parent class. A class prototype holds methods and its constructor.
MemberNames == {"hello", "rng", "secret"}

InstanceLinks ==
  {Link(f, d \cup i, IF i = {} THEN {} ELSE {"secret"}) :
     f \in SUBSET (MemberNames \cup {"processCommand"}),
     d \in SUBSET {"channel"},
     i \in SUBSET {"ignoreProperties"}}

PrototypeLinks ==
  {Link(f \cup {"constructor"}, i, IF i = {} THEN {} ELSE {"secret"}) :
     f \in SUBSET MemberNames, i \in SUBSET {"ignoreProperties"}}

Chains(depth) ==
  IF depth = 0 THEN {<<a>> : a \in InstanceLinks}
  ELSE IF depth = 1 THEN {<<a, b>> : a \in InstanceLinks, b \in PrototypeLinks}
  ELSE {<<a, b, c>> : a \in InstanceLinks, b \in PrototypeLinks, c \in PrototypeLinks}

\* new ExamplePlugin(fChatLib, chan): three data fields; hello and rng are
\* methods of the class
ExamplePluginInstance ==
  << Link({}, {"fChatLibInstance", "channel", "randomId"}, {}),
     Link({"constructor", "hello", "rng"}, {}, {}) >>

NotYet == <<"not called">>

GetAllFuncs ==
  /\ obj # << >>
  /\ funcs = NotYet
  /\ funcs' = internalGetAllFuncs(obj)
  /\ UNCHANGED obj
  /\ UNCHANGED notFuncs

\* no object has been handed to internalGetAllFuncs
InitFuncs ==
  /\ obj = << >>
  /\ funcs = NotYet

\* internalGetAllFuncs is about to be called on some object
InitFuncsCall ==
  /\ obj \in {ExamplePluginInstance} \cup UNION {Chains(d) : d \in 0..MaxClassDepth}
  /\ funcs = NotYet

NextFuncs == GetAllFuncs

\* ================================================================
\* PluginHost: CommandHandler construction, CommandHandlerHelper load/unload
\* ================================================================

ChannelNames == {"lounge", "Lounge"}

\* String.prototype.toLowerCase on the channel names and identities of the model
ToLower(channel) ==
  IF channel = "Lounge" THEN "lounge" ELSE IF channel = "Admin" THEN "admin" ELSE channel

PluginNames == {"Dice", "Greeter"}

\* What `new RequireClean(pluginPath)` finds under a plugin name, which the
\* plugin folder decides anew at every load:
\*   "notfound"  no such module (code MODULE_NOT_FOUND)
\*   "noclass"   a module without a class of that name ('is not a constructor')
\*   "throws"    a class whose constructor throws an Error
\*   "fields"    a class whose instances hold their commands as function-valued
\*               fields (hello = (args, data) => ...), a help of its own
\*               among them
\*   "methods"   a class whose commands are methods, like ExamplePlugin
Modules == {"notfound", "noclass", "throws", "fields", "methods"}

InstanceOf(module) ==
  IF module = "fields"
  THEN << Link({"hello", "rng", "help"}, {"channel"}, {}), Link({"constructor"}, {}, {}) >>
  ELSE ExamplePluginInstance

IPlugin(name, instanciatedPlugin) ==
  [name |-> name, instanciatedPlugin |-> instanciatedPlugin]

\* pluginsLoaded.findIndex((x) => x.name === pluginName)
FindIndex(list, name) ==
  IF \E i \in DOMAIN list : list[i].name = name
  THEN (CHOOSE i \in DOMAIN list :
          list[i].name = name /\ \A j \in 1..(i-1) : list[j].name # name)
  ELSE -1

\* list.splice(index, 1) as JavaScript does it: a negative index counts from
\* the end of the list
Splice(list, index) ==
  IF index >= 1 THEN Splice1(list, index)
  ELSE IF Len(list) = 0 THEN list
  ELSE Splice1(list, Max(Len(list) + 1 + index, 1))

Names(list) == [i \in DOMAIN list |-> list[i].name]

\* A CommandHandler's pluginsLoaded is the array channels[channelName] itself
\* (the constructor takes the reference), or an empty array of its own while
\* channels has no such key.
PluginsLoaded(chs, channelName) ==
  IF channelName \in DOMAIN chs THEN chs[channelName] ELSE << >>

\* a change made in place to a handler's pluginsLoaded
InPlace(chs, channelName, list) ==
  IF channelName \in DOMAIN chs THEN [chs EXCEPT ![channelName] = list] ELSE chs

\* this.commandHandler.fChatLibInstance.channels[channelName] = pluginsLoaded
Assign(chs, channelName, list) ==
  [c \in DOMAIN chs \cup {channelName} |-> IF c = channelName THEN list ELSE chs[c]]

\* updateRoomsConfig: the content written to the save file
updateRoomsConfig(chs) == [c \in DOMAIN chs |-> Names(chs[c])]

\* the try block of a load, for what require found: which branch it ends in
TryLoad(module) ==
  IF module \in {"notfound", "noclass", "throws"} THEN module
  ELSE IF internalGetAllFuncs(InstanceOf(module)) = << >> THEN "nocmds"
  ELSE "loaded"

Op(op, key, channel, name, before, after, savedBefore, savedAfter, outcome, msgs, constructed, loadable) ==
  [op |-> op, key |-> key, channel |-> channel, name |-> name, before |-> before,
   after |-> after, savedBefore |-> savedBefore, savedAfter |-> savedAfter,
   outcome |-> outcome, msgs |-> msgs, constructed |-> constructed,
   loadable |-> loadable]

NoOp == Op("none", "", "", "", << >>, << >>, << >>, << >>, "", << >>, << >>, FALSE)

\* a plausible slip: the entry of that name left in place
WithoutNamed_keeps(list, pluginName) == list

\* pluginsLoaded after the splice of the entry findIndex finds under the name
WithoutNamed(list, pluginName) ==
  IF FindIndex(list, pluginName) # -1 THEN Splice(list, FindIndex(list, pluginName)) ELSE list

\* internalLoadPlugin(pluginName, commandHandler) of the handler under key,
\* with channels, the save file and the handlers as given: what it leaves.
\* module is what the plugin folder holds under that name.
Loaded(chans, saved, handlers, key, pluginName, module) ==
  LET channelName == handlers[key].channelName
      before == PluginsLoaded(chans, channelName)
      removed == WithoutNamed(before, pluginName)
      outcome == TryLoad(module)
      pushed == Append(removed, IPlugin(pluginName, "object"))
      chs == IF outcome = "loaded" THEN Assign(chans, channelName, pushed)
             ELSE InPlace(chans, channelName, removed)
      file == IF outcome = "loaded" THEN updateRoomsConfig(chs) ELSE saved
  IN  [channels |-> chs, file |-> file,
       op |-> Op("load", key, channelName, pluginName, before,
                 PluginsLoaded(chs, channelName), saved, file, outcome,
                 <<outcome>>, IF module \in {"fields", "methods"}
                              THEN <<pluginName>> ELSE << >>,
                 outcome = "loaded")]

internalLoadPlugin(key, pluginName, module) ==
  /\ key \in DOMAIN commandHandlers
  /\ opCount < MaxOps
  /\ opCount' = opCount + 1
  /\ LET end == Loaded(channels, saveFile, commandHandlers, key, pluginName, module)
     IN  /\ channels' = end.channels
         /\ saveFile' = end.file
         /\ lastOps' = << end.op >>
         /\ prevLoad' = NoOp
  /\ UNCHANGED commandHandlers
  /\ UNCHANGED notPlugins

\* internalUnloadPlugin(pluginName) of the handler under key: what it leaves
Unloaded(chans, saved, handlers, key, pluginName) ==
  LET channelName == handlers[key].channelName
      before == PluginsLoaded(chans, channelName)
      index == FindIndex(before, pluginName)
      chs == IF index = -1
             THEN Assign(chans, channelName, Splice(before, index))
             ELSE chans
      file == IF index = -1 THEN updateRoomsConfig(chs) ELSE saved
  IN  [channels |-> chs, file |-> file,
       op |-> Op("unload", key, channelName, pluginName, before,
                 PluginsLoaded(chs, channelName), saved, file, "",
                 << >>, << >>, FALSE)]

internalUnloadPlugin(key, pluginName) ==
  /\ key \in DOMAIN commandHandlers
  /\ opCount < MaxOps
  /\ opCount' = opCount + 1
  /\ LET end == Unloaded(channels, saveFile, commandHandlers, key, pluginName)
     IN  /\ channels' = end.channels
         /\ saveFile' = end.file
         /\ lastOps' = << end.op >>
         /\ prevLoad' = IF Len(lastOps) = 1 /\ lastOps[1].op = "load"
                        THEN lastOps[1] ELSE NoOp
  /\ UNCHANGED commandHandlers
  /\ UNCHANGED notPlugins

\* internalLoadPluginOnStart(pluginsArray), from index i on. pluginsArray is
\* the handler's pluginsLoaded, that is channels[channel]: the loop reads
\* pluginsArray[i] and pluginsArray.length from the array it splices and
\* pushes to. st carries channels, the save file and the names constructed.
RECURSIVE LoadOnStart(_, _, _, _)
LoadOnStart(st, channel, i, env) ==
  LET array == st.channels[channel]
  IN  IF i > Len(array) THEN st
      ELSE LET name == array[i].name
               removed == Splice(array, FindIndex(array, name))
               outcome == TryLoad(env[name])
               pushed == Append(removed, IPlugin(name, "object"))
               chs == [st.channels EXCEPT ![channel] =
                         IF outcome = "loaded" THEN pushed ELSE removed]
           IN  LoadOnStart(
                 [channels |-> chs,
                  file |-> IF outcome = "loaded" THEN updateRoomsConfig(chs) ELSE st.file,
                  constructed |-> IF env[name] \in {"fields", "methods"}
                                  THEN Append(st.constructed, name)
                                  ELSE st.constructed],
                 channel, i + 1, env)

\* new CommandHandler(this, channel): the state it leaves, and its record
NewCommandHandler(chs, file, channel, env) ==
  IF channel \in DOMAIN chs /\ Len(chs[channel]) > 0
  THEN LoadOnStart([channels |-> chs, file |-> file, constructed |-> << >>],
                   channel, 1, env)
  ELSE [channels |-> chs, file |-> file, constructed |-> << >>]

StartOp(key, channel, chs, file, st, env) ==
  Op("start", key, channel, "", PluginsLoaded(chs, channel),
     PluginsLoaded(st.channels, channel), file, st.file, "", << >>,
     st.constructed,
     \A i \in DOMAIN PluginsLoaded(chs, channel) :
        TryLoad(env[PluginsLoaded(chs, channel)[i].name]) = "loaded")

\* generateCommandHandlers, called by connect(): one handler per key of
\* channels, in the order `rooms` of Object.keys.
RECURSIVE GenerateFrom(_, _, _, _)
GenerateFrom(acc, rooms, k, env) ==
  IF k > Len(rooms) THEN acc
  ELSE LET room == rooms[k]
           st == NewCommandHandler(acc.channels, acc.file, room, env)
           key == ToLower(room)
       IN  GenerateFrom(
             [channels |-> st.channels, file |-> st.file,
              handlers |-> [h \in DOMAIN acc.handlers \cup {key} |->
                              IF h = key THEN [channelName |-> room]
                              ELSE acc.handlers[h]],
              ops |-> Append(acc.ops,
                       StartOp(key, room, acc.channels, acc.file, st, env))],
             rooms, k + 1, env)

KeyOrders(chs) ==
  {o \in [1..Cardinality(DOMAIN chs) -> DOMAIN chs] :
     \A i, j \in DOMAIN o : i # j => o[i] # o[j]}

generateCommandHandlers(rooms, env) ==
  /\ opCount < MaxOps
  /\ opCount' = opCount + 1
  /\ LET end == GenerateFrom([channels |-> channels, file |-> saveFile,
                              handlers |-> commandHandlers, ops |-> << >>],
                             rooms, 1, env)
     IN  /\ channels' = end.channels
         /\ saveFile' = end.file
         /\ commandHandlers' = end.handlers
         /\ lastOps' = end.ops
         /\ prevLoad' = NoOp
  /\ UNCHANGED notPlugins

\* joinNewChannel(channel): what it leaves of channels, the save file and
\* the handlers
Joined(chans, saved, handlers, channel, env) ==
  LET sanitizedChannel == ToLower(channel)
      chs == IF sanitizedChannel \notin DOMAIN chans
                \/ Len(PluginsLoaded(chans, sanitizedChannel)) = 0
             THEN Assign(chans, sanitizedChannel, << >>)
             ELSE chans
      st == NewCommandHandler(chs, saved, sanitizedChannel, env)
  IN  [channels |-> st.channels,
       file |-> updateRoomsConfig(st.channels),
       handlers |-> [h \in DOMAIN handlers \cup {sanitizedChannel} |->
                       IF h = sanitizedChannel THEN [channelName |-> sanitizedChannel]
                       ELSE handlers[h]],
       op |-> StartOp(sanitizedChannel, sanitizedChannel, chs, saved,
                      [st EXCEPT !.file = updateRoomsConfig(st.channels)], env)]

joinNewChannel(channel, env) ==
  /\ opCount < MaxOps
  /\ opCount' = opCount + 1
  /\ LET end == Joined(channels, saveFile, commandHandlers, channel, env)
     IN  /\ channels' = end.channels
         /\ saveFile' = end.file
         /\ commandHandlers' = end.handlers
         /\ lastOps' = << end.op >>
         /\ prevLoad' = NoOp
  /\ UNCHANGED notPlugins

\* softRestart(channel): what it leaves
SoftRestarted(chans, saved, handlers, channel, env) ==
  LET st == NewCommandHandler(chans, saved, channel, env)
  IN  [channels |-> st.channels,
       file |-> st.file,
       handlers |-> [h \in DOMAIN handlers \cup {channel} |->
                       IF h = channel THEN [channelName |-> channel]
                       ELSE handlers[h]],
       op |-> StartOp(channel, channel, chans, saved, st, env)]

\* softRestart(channel), reached from the reloadplugins command of the
\* handler that serves the channel
softRestart(channel, env) ==
  /\ ToLower(channel) \in DOMAIN commandHandlers
  /\ opCount < MaxOps
  /\ opCount' = opCount + 1
  /\ LET end == SoftRestarted(channels, saveFile, commandHandlers, channel, env)
     IN  /\ channels' = end.channels
         /\ saveFile' = end.file
         /\ commandHandlers' = end.handlers
         /\ lastOps' = << end.op >>
         /\ prevLoad' = NoOp
  /\ UNCHANGED notPlugins

\* savePluginMapSchema: every saved name becomes an IPlugin without instance
ParseSaveFile(file) ==
  [c \in DOMAIN file |-> [i \in DOMAIN file[c] |-> IPlugin(file[c][i], "null")]]

\* the lists of distinct plugin names a save file can hold
SavedLists ==
  {<< >>} \cup {<<a>> : a \in PluginNames}
          \cup {<<a, b>> : <<a, b>> \in {p \in PluginNames \X PluginNames : p[1] # p[2]}}

\* joinNewChannel writes lower-case keys only
SaveFiles == UNION {[cs -> SavedLists] : cs \in SUBSET {ToLower(c) : c \in ChannelNames}}

NoSaveFile == [c \in {} |-> << >>]

\* constructed without a save file: nothing is loaded (the default room is
\* added only `if (this.channels[room] === null)`, which an absent key is not)
InitPlugins ==
  /\ saveFile = NoSaveFile
  /\ channels = ParseSaveFile(saveFile)
  /\ commandHandlers = [h \in {} |-> [channelName |-> ""]]
  /\ lastOps = << >>
  /\ prevLoad = NoOp
  /\ opCount = 0

\* constructed with some save file
InitPluginsSaved ==
  /\ saveFile \in SaveFiles
  /\ channels = ParseSaveFile(saveFile)
  /\ commandHandlers = [h \in {} |-> [channelName |-> ""]]
  /\ lastOps = << >>
  /\ prevLoad = NoOp
  /\ opCount = 0

\* the plugin folder, as far as the names of the given lists look into it
Envs(lists) == [UNION {Range(Names(l)) : l \in lists} -> Modules]

NextPlugins ==
  \/ \E rooms \in KeyOrders(channels), env \in Envs(Range(channels)) :
       generateCommandHandlers(rooms, env)
  \/ \E c \in ChannelNames : \E env \in Envs({PluginsLoaded(channels, ToLower(c))}) :
       joinNewChannel(c, env)
  \/ \E c \in ChannelNames : \E env \in Envs({PluginsLoaded(channels, c)}) :
       softRestart(c, env)
  \/ \E key \in ChannelNames, name \in PluginNames, module \in Modules :
       internalLoadPlugin(key, name, module)
  \/ \E key \in ChannelNames, name \in PluginNames : internalUnloadPlugin(key, name)

\* ================================================================
\* Authorization: the operator table, isUserChatOP, isUserMaster
\* ================================================================

\* character names; "" is the empty name a frame can carry
Identities == {"Admin", "admin", "Bob"}

MaxOpList == 2

\* the oplist of a COL frame: identities or empty entries
OpLists ==
  UNION {[1..n -> Identities \cup {""}] : n \in 0..MaxOpList}

HasKey(table, key) == key \in DOMAIN table

Put(table, key, value) ==
  [k \in DOMAIN table \cup {key} |-> IF k = key THEN value ELSE table[k]]

\* pushing the entries of oplist that are truthy and not yet listed, in order
RECURSIVE PushOps(_, _, _)
PushOps(list, oplist, i) ==
  IF i > Len(oplist) THEN list
  ELSE PushOps(IF oplist[i] # "" /\ IndexOf(list, oplist[i]) = -1
               THEN Append(list, oplist[i]) ELSE list,
               oplist, i + 1)

addChatOPsToList(argsChannel, oplist) ==
  /\ LET channel == ToLower(argsChannel)
         list == IF HasKey(chatOPsInChannel, channel)
                 THEN chatOPsInChannel[channel] ELSE << >>
     IN  chatOPsInChannel' = Put(chatOPsInChannel, channel, PushOps(list, oplist, 1))
  /\ UNCHANGED <<master, asked>>
  /\ UNCHANGED notAuth

addChatOPToList(argsChannel, character) ==
  /\ LET channel == ToLower(argsChannel)
         list == IF HasKey(chatOPsInChannel, channel)
                 THEN chatOPsInChannel[channel] ELSE << >>
     IN  chatOPsInChannel' =
           Put(chatOPsInChannel, channel,
               IF IndexOf(list, character) = -1 THEN Append(list, character) ELSE list)
  /\ UNCHANGED <<master, asked>>
  /\ UNCHANGED notAuth

removeChatOPFromList(argsChannel, character) ==
  /\ LET channel == ToLower(argsChannel)
     IN  /\ HasKey(chatOPsInChannel, channel)
         /\ IndexOf(chatOPsInChannel[channel], character) # -1
         /\ chatOPsInChannel' =
              [chatOPsInChannel EXCEPT ![channel] =
                 Splice1(@, IndexOf(@, character))]
  /\ UNCHANGED <<master, asked>>
  /\ UNCHANGED notAuth

getChatOPList(ops, channel) ==
  LET sanitizedChannel == ToLower(channel)
  IN  IF HasKey(ops, sanitizedChannel) THEN ops[sanitizedChannel] ELSE << >>

isUserChatOP(ops, configMaster, username, channel) ==
  LET sanitizedChannel == ToLower(channel)
  IN  IndexOf(getChatOPList(ops, sanitizedChannel), username) # -1
      \/ username = configMaster

\* a plausible slip: the comparison left out
isUserMaster_anyone(configMaster, username) == TRUE

isUserMaster(configMaster, username) == ToLower(username) = ToLower(configMaster)

\* a caller asks both questions about one name
Ask(username, channel) ==
  /\ asked' = [username |-> username, channel |-> channel,
               chatOP |-> isUserChatOP(chatOPsInChannel, master, username, channel),
               master |-> isUserMaster(master, username)]
  /\ UNCHANGED <<master, chatOPsInChannel>>
  /\ UNCHANGED notAuth

NotAsked == [username |-> "", channel |-> "", chatOP |-> FALSE, master |-> FALSE]

InitAuth ==
  /\ master = "Admin"
  /\ chatOPsInChannel = [c \in {} |-> << >>]
  /\ asked = NotAsked

\* any valid configuration: config.master is some non-empty name
InitAuthAny ==
  /\ master \in Identities
  /\ chatOPsInChannel = [c \in {} |-> << >>]
  /\ asked = NotAsked

NextAuth ==
  \/ \E c \in ChannelNames, oplist \in OpLists : addChatOPsToList(c, oplist)
  \/ \E c \in ChannelNames, x \in Identities : addChatOPToList(c, x)
  \/ \E c \in ChannelNames, x \in Identities : removeChatOPFromList(c, x)
  \/ \E c \in ChannelNames, x \in Identities : Ask(x, c)

\* ================================================================
\* Connection: connect, getTicket, startWebsockets, restart, sendCommand
\* ================================================================

MaxTimers == 1
MaxWrites == 2

RestartDelay == 2000
ReconnectDelay == 4000
IdentifyRetryDelay == 1000

notConn == <<throttleVars, dispatchVars, funcVars, pluginVars, authVars, routerVars, laterVars>>

\* the addCommandListener calls of connect(), in order: type:handler
Registrations(autoJoin) ==
  << "MESSAGE_RECEIVED:commandListener", "CONNECTED:joinChannelOnConnect" >>
  \o (IF autoJoin THEN << "CHANNEL_INVITE_RECEIVED:joinChannelsWhereInvited" >> ELSE << >>)
  \o << "SERVER_VARIABLES:variableChangeHandler",
        "INITIAL_CHANNEL_DATA:addUsersToList",
        "CHARACTER_WENT_OFFLINE:removeUserFromChannels",
        "CHARACTER_LEFT_CHANNEL:removeUserFromList",
        "CHARACTER_JOINED_CHANNEL:addSingleUserToList",
        "CHARACTER_JOINED_CHANNEL:saveChannelNames",
        "CHARACTER_ONLINE_LIST:addUserListToGlobalState",
        "STATUS_CHANGED_FOR_CHARACTER:onChangeUpdateUserState",
        "CHARACTER_WENT_OFFLINE:onChangeUpdateUserState",
        "STATUS_CHANGED_FOR_CHARACTER:onChangeUpdateUserState",
        "CHANNEL_OPERATOR_LIST:addChatOPsToList",
        "CHANNEL_OPERATOR_ADD:addChatOPToList",
        "CHANNEL_OPERATOR_REMOVE:removeChatOPFromList" >>

BuiltinListeners == Range(Registrations(TRUE))

Count(seq, x) == Cardinality({i \in DOMAIN seq : seq[i] = x})

\* addCommandListener pushes; every .bind(this) is a new function
Register(reg, seq) == [k \in DOMAIN reg |-> reg[k] + Count(seq, k)]

\* ------------------------------------------------------ sendCommand
ClientCommands == {"IDN", "JCH", "PIN"}

\* statusSchema = z.enum(statuses), two of its members
Statuses == {"online", "busy"}

\* the idnObject built by getTicket; "undefined" stands for a missing value
Ticket(ticket) == [method |-> "ticket", ticket |-> ticket]

ClientPayloads ==
  {Undefined} \cup {[channel |-> c] : c \in {"", "lounge", "undefined"}}
              \cup {Ticket(t) : t \in {"authticket", "undefined"}}

\* schema.safeParse(object).success for the schema of the client command:
\* JCH z.object({channel: z.string()}), PIN z.undefined(),
\* STA z.object({status: statusSchema, statusmsg: z.string()}),
\* IDN z.object({method: z.literal('ticket'), ticket: z.string(), ...})
ClientSafeParse(command, object) ==
  IF command = "PIN" THEN object = Undefined
  ELSE IF command = "JCH"
  THEN DOMAIN object = {"channel"} /\ object.channel # "undefined"
  ELSE IF command = "STA"
  THEN DOMAIN object = {"status", "statusmsg"} /\ object.status \in Statuses
  ELSE DOMAIN object = {"method", "ticket"} /\ object.ticket # "undefined"

IsOpen(socks, cur) == cur # 0 /\ socks[cur].readyState = "OPEN"

\* what sendCommand returns, with the sockets and this.ws as given
sendCommandResult(socks, cur, command, object) ==
  ClientSafeParse(command, object) /\ IsOpen(socks, cur)

Sent(socks, cur, command, object) ==
  [command |-> command, object |-> object,
   valid |-> ClientSafeParse(command, object),
   open |-> IsOpen(socks, cur),
   result |-> sendCommandResult(socks, cur, command, object),
   wrote |-> sendCommandResult(socks, cur, command, object)]

NoSend ==
  [command |-> "", object |-> Undefined, valid |-> FALSE, open |-> FALSE,
   result |-> FALSE, wrote |-> FALSE]

\* a caller's sendCommand(command, object)
sendCommand(command, object) ==
  /\ ~terminated
  /\ writes < MaxWrites
  /\ sent' = Sent(sockets, ws, command, object)
  /\ writes' = IF sendCommandResult(sockets, ws, command, object)
               THEN writes + 1 ELSE writes
  /\ UNCHANGED <<autoJoinOnInvite, terminated, sockets, ws, timers, tickets,
                 registered, pingInterval, intervals>>
  /\ UNCHANGED notConn

\* the setInterval callback of the open handler
pingTick ==
  /\ ~terminated
  /\ pingInterval
  /\ writes < MaxWrites
  /\ sent' = Sent(sockets, ws, "PIN", Undefined)
  /\ writes' = IF sendCommandResult(sockets, ws, "PIN", Undefined)
               THEN writes + 1 ELSE writes
  /\ UNCHANGED <<autoJoinOnInvite, terminated, sockets, ws, timers, tickets,
                 registered, pingInterval, intervals>>
  /\ UNCHANGED notConn

\* ------------------------------------------------------ connect
Socket(idn) ==
  [readyState |-> "CONNECTING", idn |-> idn, closedBy |-> "", wasOpen |-> FALSE,
   errors |-> 0]

Timer(kind, delay, idn) ==
  [kind |-> kind, delay |-> delay, idn |-> idn, state |-> "pending", connect |-> 0]

\* connect(), up to `await this.getTicket()`; cause says who called it
connect(cause, rooms, env) ==
  LET end == GenerateFrom([channels |-> channels, file |-> saveFile,
                           handlers |-> commandHandlers, ops |-> << >>],
                          rooms, 1, env)
  IN  /\ ws' = 0
      /\ floodLimit' = 2
      /\ floodChanged' = (floodChanged \/ floodLimit # 2)
      /\ channels' = end.channels
      /\ saveFile' = end.file
      /\ commandHandlers' = end.handlers
      /\ lastOps' = end.ops
      /\ prevLoad' = NoOp
      /\ registered' = Register(registered, Registrations(autoJoinOnInvite))
      /\ tickets' = Append(tickets, [cause |-> cause, state |-> "pending",
                                     response |-> "", socket |-> 0])
      /\ UNCHANGED <<now, lastTimeCommandReceived, commandsInQueue, calls,
                     dispatched, burst, opCount>>
      /\ UNCHANGED <<dispatchVars, funcVars, authVars, routerVars, laterVars>>
      /\ UNCHANGED <<autoJoinOnInvite, terminated, sockets, pingInterval, intervals, writes, sent>>

\* the application's first connect()
Connect(rooms, env) ==
  /\ ~terminated
  /\ tickets = << >>
  /\ connect("host", rooms, env)
  /\ UNCHANGED timers

\* What the ticket request of connect() number i comes back with:
\*   "ticket"    a JSON body with a ticket
\*   "noTicket"  a JSON body without one (the endpoint's error answer)
\*   "err"       a request error: reject(err), then JSON.parse(undefined) throws
\*   "notJson"   a body that is not JSON: JSON.parse throws
\* An exception thrown in the request callback is caught by nobody: the
\* process exits. On resolve, connect() goes on to startWebsockets(ticket).
TicketResponses == {"ticket", "noTicket", "err", "notJson"}

getTicket(i, response) ==
  /\ ~terminated
  /\ i \in DOMAIN tickets
  /\ tickets[i].state = "pending"
  /\ IF response \in {"ticket", "noTicket"}
     THEN /\ sockets' = Append(sockets, Socket(IF response = "ticket"
                                               THEN "authticket" ELSE "undefined"))
          /\ ws' = Len(sockets) + 1
          /\ tickets' = [tickets EXCEPT ![i].state = "resolved",
                                        ![i].response = response,
                                        ![i].socket = Len(sockets) + 1]
          /\ UNCHANGED terminated
     ELSE /\ tickets' = [tickets EXCEPT ![i].state = IF response = "err"
                                                     THEN "rejected" ELSE "abandoned",
                                        ![i].response = response]
          /\ terminated' = TRUE
          /\ UNCHANGED <<sockets, ws>>
  /\ UNCHANGED <<autoJoinOnInvite, timers, registered, pingInterval, intervals, writes, sent>>
  /\ UNCHANGED notConn

\* the open handler without its clearInterval
Rearmed_keepsOld(ints, set, after) == Append(ints, [state |-> "armed", after |-> after])

\* if (this.pingInterval) clearInterval(this.pingInterval);
\* this.pingInterval = setInterval(...): this.pingInterval holds the timer
\* set last. after is the sendCommand the handler made before.
Rearmed(ints, set, after) ==
  Append([k \in DOMAIN ints |->
            IF set /\ k = Len(ints) THEN [ints[k] EXCEPT !.state = "cleared"]
            ELSE ints[k]],
         [state |-> "armed", after |-> after])

\* ws.on('open') of socket i
onOpen(i) ==
  /\ ~terminated
  /\ i \in DOMAIN sockets
  /\ sockets[i].readyState = "CONNECTING"
  /\ LET opened == [sockets EXCEPT ![i].readyState = "OPEN"]
         idnObject == Ticket(sockets[i].idn)
     IN  /\ sockets' = opened
         /\ sent' = Sent(opened, ws, "IDN", idnObject)
         /\ IF sendCommandResult(opened, ws, "IDN", idnObject)
            THEN /\ writes' = writes + 1
                 /\ pingInterval' = TRUE
                 /\ intervals' = Rearmed(intervals, pingInterval,
                                         Sent(opened, ws, "IDN", idnObject))
                 /\ UNCHANGED timers
            ELSE /\ Len(timers) < MaxTimers
                 /\ timers' = Append(timers, Timer("idnRetry", IdentifyRetryDelay,
                                                   sockets[i].idn))
                 /\ UNCHANGED <<writes, pingInterval, intervals>>
  /\ UNCHANGED <<autoJoinOnInvite, terminated, ws, tickets, registered>>
  /\ UNCHANGED notConn

\* the reconnect variant of a close handler, which the engine does not have
onClose_reconnects(i) ==
  /\ ~terminated
  /\ i \in DOMAIN sockets
  /\ sockets[i].readyState # "CLOSED"
  /\ Len(timers) < MaxTimers
  /\ sockets' = [sockets EXCEPT ![i].readyState = "CLOSED"]
  /\ timers' = Append(timers, Timer("error", ReconnectDelay, ""))
  /\ UNCHANGED <<autoJoinOnInvite, terminated, ws, tickets, registered,
                 pingInterval, intervals, writes, sent>>
  /\ UNCHANGED notConn

\* ws.on('close') of socket i: process.exit()
onClose(i) ==
  /\ ~terminated
  /\ i \in DOMAIN sockets
  /\ sockets[i].readyState # "CLOSED"
  /\ sockets' = [sockets EXCEPT ![i].readyState = "CLOSED"]
  /\ terminated' = TRUE
  /\ UNCHANGED <<autoJoinOnInvite, ws, timers, tickets, registered,
                 pingInterval, intervals, writes, sent>>
  /\ UNCHANGED notConn

\* an error handler that only logs, which the engine does not have
onError_logsOnly(i) ==
  /\ ~terminated
  /\ i \in DOMAIN sockets
  /\ sockets[i].readyState # "CLOSED"
  /\ sockets[i].errors < MaxTimers
  /\ sockets' = [sockets EXCEPT ![i].errors = @ + 1]
  /\ UNCHANGED <<autoJoinOnInvite, terminated, ws, timers, tickets, registered,
                 pingInterval, intervals, writes, sent>>
  /\ UNCHANGED notConn

\* ws.on('error') of socket i
onError(i) ==
  /\ ~terminated
  /\ i \in DOMAIN sockets
  /\ sockets[i].readyState # "CLOSED"
  /\ Len(timers) < MaxTimers
  /\ sockets' = [sockets EXCEPT ![i].errors = @ + 1]
  /\ timers' = Append(timers, Timer("error", ReconnectDelay, ""))
  /\ UNCHANGED <<autoJoinOnInvite, terminated, ws, tickets, registered,
                 pingInterval, intervals, writes, sent>>
  /\ UNCHANGED notConn

\* ws.on('message') of socket i: a frame arrives
onMessage(i, verb, rem, out) ==
  /\ ~terminated
  /\ i \in DOMAIN sockets
  /\ sockets[i].readyState = "OPEN"
  /\ OnMessage(verb, rem, out)

\* the 'message' handler of a frame goes on after its await
onMessageResume ==
  /\ ~terminated
  /\ OnMessageResume

\* this.ws.close(), if there is a socket
Close(socks, cur, by) ==
  IF cur # 0 /\ socks[cur].readyState \in {"CONNECTING", "OPEN"}
  THEN [socks EXCEPT ![cur].readyState = "CLOSING", ![cur].closedBy = by,
                     ![cur].wasOpen = (socks[cur].readyState = "OPEN")]
  ELSE socks

disconnect ==
  /\ ~terminated
  /\ sockets' = Close(sockets, ws, "disconnect")
  /\ UNCHANGED <<autoJoinOnInvite, terminated, ws, timers, tickets, registered,
                 pingInterval, intervals, writes, sent>>
  /\ UNCHANGED notConn

restart ==
  /\ ~terminated
  /\ Len(timers) < MaxTimers
  /\ sockets' = Close(sockets, ws, "restart")
  /\ timers' = Append(timers, Timer("restart", RestartDelay, ""))
  /\ UNCHANGED <<autoJoinOnInvite, terminated, ws, tickets, registered,
                 pingInterval, intervals, writes, sent>>
  /\ UNCHANGED notConn

\* the callback of timer t runs
timerFires(t, rooms, env) ==
  /\ ~terminated
  /\ t \in DOMAIN timers
  /\ timers[t].state = "pending"
  /\ IF timers[t].kind = "idnRetry"
     THEN /\ sockets' = Append(sockets, Socket(timers[t].idn))
          /\ ws' = Len(sockets) + 1
          /\ timers' = [timers EXCEPT ![t].state = "fired"]
          /\ UNCHANGED <<autoJoinOnInvite, terminated, tickets, registered,
                         pingInterval, intervals, writes, sent>>
          /\ UNCHANGED notConn
     ELSE /\ connect(timers[t].kind, rooms, env)
          /\ timers' = [timers EXCEPT ![t].state = "fired",
                                      ![t].connect = Len(tickets) + 1]

InitConn ==
  /\ autoJoinOnInvite = FALSE
  /\ terminated = FALSE
  /\ sockets = << >>
  /\ ws = 0
  /\ timers = << >>
  /\ tickets = << >>
  /\ registered = [k \in BuiltinListeners |-> 0]
  /\ pingInterval = FALSE
  /\ intervals = << >>
  /\ writes = 0
  /\ sent = NoSend

NextConn ==
  \/ \E rooms \in KeyOrders(channels), env \in Envs(Range(channels)) : Connect(rooms, env)
  \/ \E i \in DOMAIN tickets, response \in TicketResponses : getTicket(i, response)
  \/ \E i \in DOMAIN sockets : onOpen(i)
  \/ \E i \in DOMAIN sockets : onClose(i)
  \/ \E i \in DOMAIN sockets : onError(i)
  \/ \E t \in DOMAIN timers : \E rooms \in KeyOrders(channels), env \in Envs(Range(channels)) :
       timerFires(t, rooms, env)
  \/ restart
  \/ disconnect
  \/ pingTick
  \/ \E i \in DOMAIN sockets : \E out \in [DOMAIN ListenersFor("PIN") -> Outcomes] :
       onMessage(i, "PIN", "none", out)
  \/ onMessageResume

\* a caller sending commands while the transport comes and goes
NextSend ==
  \/ \E rooms \in KeyOrders(channels), env \in Envs(Range(channels)) : Connect(rooms, env)
  \/ \E i \in DOMAIN tickets, response \in TicketResponses : getTicket(i, response)
  \/ \E i \in DOMAIN sockets : onOpen(i)
  \/ disconnect
  \/ \E command \in ClientCommands, object \in ClientPayloads : sendCommand(command, object)

\* ================================================================
\* CommandRouter: FChatLib.commandListener, CommandHandler.processCommand
\* and the built-in commands of CommandHandler
\* ================================================================

MaxMessages == 1

\* the methods of CommandHandler besides processCommand
BuiltinCommands ==
  {"help", "flood", "reloadplugins", "greload", "grestart", "gdisableinvites",
   "genableinvites", "gjoinchannel", "gstatus", "list", "listops", "loadplugin",
   "loadedplugins", "unloadplugin", "updateplugins", "uptime", "flushpluginslist"}

\* typeof this[p] === 'function' for a CommandHandler: its methods and what
\* it inherits from Object.prototype (constructor and toString stand for these)
HandlerFunctions == BuiltinCommands \cup {"processCommand", "constructor", "toString"}

\* the verbs of the model: the built-ins, the commands of a plugin, the
\* names above, and a name that nothing has
CommandVerbs == HandlerFunctions \cup {"hello", "rng", "zzz"}

\* opts.argument for a verb: what matters to the command's own parsing
ArgumentsOf(verb) ==
  IF verb = "gjoinchannel" THEN ChannelNames
  ELSE IF verb = "gstatus" THEN {"", "busy", "bogus"}
  ELSE IF verb \in {"loadplugin", "unloadplugin"} THEN PluginNames \cup {""}
  ELSE {""}

\* a MSG frame's text: "!verb argument", or a text that is no trigger
Triggers == {[trigger |-> TRUE, verb |-> v, argument |-> a] : v \in CommandVerbs, a \in {"", "busy", "bogus"} \cup ChannelNames \cup PluginNames}

Messages ==
  {m \in Triggers : m.argument \in ArgumentsOf(m.verb)}
  \cup {[trigger |-> FALSE, verb |-> "", argument |-> ""]}

\* gstatusArgs.safeParse(args): "invalid" for the empty string (min(1)),
\* "throws" when the transform throws its Error, which safeParse lets through
gstatusArgs(args) ==
  IF args = "" THEN "invalid" ELSE IF args \in Statuses THEN "valid" ELSE "throws"

\* loadpluginArgs.safeParse(args).success: /^[a-zA-Z0-9_-]+$/
loadpluginArgs(args) == args # ""

\* internalGetAllFuncs(plugin.instanciatedPlugin) for an entry of
\* pluginsLoaded: the commands of the instance; Object.getOwnPropertyNames
\* throws a TypeError for the null of an entry that was never instantiated
IsNull(plugin) == plugin.instanciatedPlugin = "null"

\* every instance in a list is one of a class that TryLoad lets through
LoadedInstance == InstanceOf("fields")

InstanceCommands == Range(internalGetAllFuncs(LoadedInstance))

CommandsOf(plugin) == InstanceCommands

Exposing(list, verb) ==
  SelectSeq(list, LAMBDA plugin : ~IsNull(plugin) /\ verb \in CommandsOf(plugin))

\* the index of the first entry without instance, or 0
FirstNull(list) ==
  IF \E i \in DOMAIN list : IsNull(list[i])
  THEN CHOOSE i \in DOMAIN list : IsNull(list[i]) /\ \A j \in 1..(i-1) : ~IsNull(list[j])
  ELSE 0

\* What a call leaves: channels, the save file and the handlers, the
\* plugin-host operations it ran, the sendMessage calls it made, whether it
\* threw, how many listeners it registered, whether it called restart(), and
\* the sendCommand calls it made directly.
World(chans, saved, handlers) ==
  [channels |-> chans, file |-> saved, handlers |-> handlers, ops |-> << >>,
   msgs |-> << >>, threw |-> FALSE, invites |-> 0, restart |-> FALSE,
   send |-> << >>, plugins |-> << >>, builtin |-> ""]

Reply(w, text) == [w EXCEPT !.msgs = Append(@, text)]

InsufficientRights == "You don't have sufficient rights."

\* the state of a world after a plugin-host call that left `end`
After(w, end) ==
  [w EXCEPT !.channels = end.channels, !.file = end.file,
            !.handlers = IF "handlers" \in DOMAIN end THEN end.handlers ELSE @,
            !.ops = Append(@, end.op)]

\* greload: softRestart(channel) for every key of channels, in the order
\* rooms of Object.keys
RECURSIVE SoftRestartAll(_, _, _, _)
SoftRestartAll(w, rooms, k, env) ==
  IF k > Len(rooms) THEN w
  ELSE SoftRestartAll(
         After(w, SoftRestarted(w.channels, w.file, w.handlers, rooms[k], env)),
         rooms, k + 1, env)

\* this[verb](argument, data) for the handler under key
Invoke(w, verb, key, argument, data, env, rooms) ==
  LET chatOP == isUserChatOP(chatOPsInChannel, master, data.character, data.channel)
      isMaster == isUserMaster(master, data.character)
      refused == Reply(w, InsufficientRights)
  IN  CASE verb = "help" -> Reply(w, "Here are the available commands:")
        [] verb = "flood" ->
             IF chatOP THEN Reply(w, "Current flood limit set:") ELSE refused
        [] verb = "reloadplugins" ->
             IF chatOP
             THEN Reply(After(w, SoftRestarted(w.channels, w.file, w.handlers,
                                               data.channel, env)),
                        "All plugins have been reloaded!")
             ELSE refused
        [] verb = "greload" ->
             IF isMaster
             THEN Reply(SoftRestartAll(w, rooms, 1, env), "All plugins have been reloaded!")
             ELSE refused
        [] verb = "grestart" ->
             IF isMaster THEN [w EXCEPT !.restart = TRUE] ELSE refused
        [] verb = "gdisableinvites" ->
             IF isMaster THEN w ELSE refused
        [] verb = "genableinvites" ->
             IF isMaster THEN [w EXCEPT !.invites = 1] ELSE refused
        [] verb = "gjoinchannel" ->
             IF isMaster
             THEN [After(w, Joined(w.channels, w.file, w.handlers, argument, env))
                     EXCEPT !.send = << [command |-> "JCH",
                                         object |-> [channel |-> ToLower(argument)]] >>]
             ELSE refused
        [] verb = "gstatus" ->
             IF gstatusArgs(argument) = "throws" THEN [w EXCEPT !.threw = TRUE]
             ELSE IF gstatusArgs(argument) = "invalid"
             THEN Reply(w, "Invalid Arguments for !gstatus.")
             ELSE IF isMaster
             THEN [w EXCEPT !.send = << [command |-> "STA",
                                         object |-> [status |-> argument,
                                                     statusmsg |-> ""]] >>]
             ELSE refused
        [] verb = "list" -> Reply(w, "Here are the current characters in the room:")
        [] verb = "listops" -> Reply(w, "Here are the current operators in the room:")
        [] verb = "loadplugin" ->
             IF ~isMaster THEN refused
             ELSE IF ~loadpluginArgs(argument)
             THEN Reply(w, "Invalid Arguments for !loadplugin.")
             ELSE LET end == Loaded(w.channels, w.file, w.handlers, key, argument,
                                    env[argument])
                  IN  Reply(After(w, end), end.op.outcome)
        [] verb = "loadedplugins" ->
             IF chatOP THEN Reply(w, "The following plugins are loaded:") ELSE refused
        [] verb = "unloadplugin" ->
             IF ~isMaster THEN refused
             ELSE IF ~loadpluginArgs(argument)
             THEN Reply(w, "Invalid Arguments for !unloadplugin.")
             ELSE After(w, Unloaded(w.channels, w.file, w.handlers, key, argument))
        [] verb = "updateplugins" ->
             IF chatOP THEN w ELSE refused
        [] verb = "uptime" -> Reply(w, "The bot has been running for")
        [] verb = "flushpluginslist" ->
             IF chatOP
             THEN LET flushed == Assign(w.channels, data.channel, << >>)
                  IN  After(Reply([w EXCEPT !.channels = flushed],
                                  "Removed all plugins, the bot will restart."),
                            SoftRestarted(flushed, w.file, w.handlers, data.channel, env))
             ELSE refused
        \* A class constructor called without new throws a TypeError. (Compiled
        \* to an ES5 function it runs as a method instead and throws the
        \* TypeError at `this.fChatLibInstance.channels[channel]`, the argument
        \* string being its parent.)
        [] verb = "constructor" -> [w EXCEPT !.threw = TRUE]
        \* Object.prototype.toString returns a string
        [] OTHER -> w

\* processCommand(data) of the handler under key. The plugins' commands are
\* taken to return.
processCommand(w, key, message, data, env, rooms) ==
  IF ~message.trigger \/ message.verb = "processCommand" THEN w
  ELSE LET list == PluginsLoaded(w.channels, w.handlers[key].channelName)
           n == FirstNull(list)
           reached == IF n = 0 THEN list ELSE SubSeq(list, 1, n - 1)
           called == Names(Exposing(reached, message.verb))
           found == [w EXCEPT !.plugins = called]
       IN  IF n # 0 THEN [found EXCEPT !.threw = TRUE]
           ELSE IF called = << >> /\ message.verb \in HandlerFunctions
           THEN Invoke([found EXCEPT !.builtin = message.verb], message.verb, key,
                       message.argument, data, env, rooms)
           ELSE found

\* The plugin folder as far as a message looks into it: a restart of
\* handlers loads the plugins listed for their channels again and finds a
\* loadable class or nothing; loadplugin looks for the name it was given.
EnvsFor(message, data) ==
  LET lists == IF message.verb = "greload" THEN Range(channels)
               ELSE IF message.verb = "reloadplugins"
               THEN {PluginsLoaded(channels, data.channel)}
               ELSE IF message.verb = "gjoinchannel"
               THEN {PluginsLoaded(channels, ToLower(message.argument))}
               ELSE {}
  IN  IF message.verb = "loadplugin" /\ message.argument # ""
      THEN [{message.argument} -> Modules]
      ELSE [UNION {Range(Names(l)) : l \in lists} -> {"notfound", "fields"}]

RoomsFor(message) ==
  IF message.verb = "greload" THEN KeyOrders(channels)
  ELSE {<< >>}

NotRouted ==
  [seq |-> 0, channel |-> "", character |-> "", trigger |-> FALSE, verb |-> "",
   argument |-> "", handled |-> FALSE, exposing |-> << >>, operator |-> FALSE,
   master |-> FALSE, plugins |-> << >>, builtin |-> "", msgs |-> << >>,
   error |-> FALSE, changed |-> FALSE, report |-> << >>]

\* commandListener(args): a MSG frame from data.character in data.channel
\* throwError(args, error, chan): what it sends, through sendMessage
throwError(args, chan) ==
  [command |-> "MSG", channel |-> chan, recipient |-> "",
   message |-> "Error: Please message", about |-> args]

commandListener(data, message, env, rooms) ==
  LET channel == ToLower(data.channel)
      handled == channel \in DOMAIN commandHandlers
      result == IF handled
           THEN processCommand(World(channels, saveFile, commandHandlers), channel,
                               message, data, env, rooms)
           ELSE World(channels, saveFile, commandHandlers)
  IN  \E w \in {result} :
      LET msgs == IF w.threw THEN Append(w.msgs, "Error: Please message") ELSE w.msgs IN
      /\ ~terminated
      /\ routed.seq < MaxMessages
      /\ opCount < MaxOps
      /\ opCount' = IF w.ops = << >> THEN opCount ELSE opCount + 1
      /\ channels' = w.channels
      /\ saveFile' = w.file
      /\ commandHandlers' = w.handlers
      /\ lastOps' = IF w.ops = << >> THEN lastOps ELSE w.ops
      /\ prevLoad' = IF w.ops = << >> THEN prevLoad
                     ELSE IF w.ops[1].op = "unload" /\ Len(lastOps) = 1
                             /\ lastOps[1].op = "load"
                     THEN lastOps[1] ELSE NoOp
      /\ registered' =
           IF w.invites = 1
           THEN Register(registered, << "CHANNEL_INVITE_RECEIVED:joinChannelsWhereInvited" >>)
           ELSE registered
      /\ IF w.restart
         THEN /\ Len(timers) < MaxTimers
              /\ sockets' = Close(sockets, ws, "restart")
              /\ timers' = Append(timers, Timer("restart", RestartDelay, ""))
         ELSE UNCHANGED <<sockets, timers>>
      /\ IF w.send # << >>
         THEN /\ writes < MaxWrites
              /\ sent' = Sent(sockets, ws, w.send[1].command, w.send[1].object)
              /\ writes' = IF sendCommandResult(sockets, ws, w.send[1].command,
                                                w.send[1].object)
                           THEN writes + 1 ELSE writes
         ELSE UNCHANGED <<sent, writes>>
      /\ IF msgs # << >> THEN sendData ELSE UNCHANGED throttleVars
      /\ routed' =
           [seq |-> routed.seq + 1,
            channel |-> data.channel, character |-> data.character,
            trigger |-> message.trigger, verb |-> message.verb,
            argument |-> message.argument, handled |-> handled,
            exposing |-> IF handled
                         THEN Names(Exposing(PluginsLoaded(channels,
                                commandHandlers[channel].channelName), message.verb))
                         ELSE << >>,
            operator |-> IndexOf(getChatOPList(chatOPsInChannel, data.channel),
                                 data.character) # -1,
            master |-> isUserMaster(master, data.character),
            plugins |-> w.plugins, builtin |-> w.builtin, msgs |-> msgs,
            error |-> w.threw,
            report |-> IF w.threw THEN << throwError(data, channel) >> ELSE << >>,
            changed |-> \/ w.channels # channels \/ w.file # saveFile
                        \/ w.handlers # commandHandlers \/ w.invites # 0
                        \/ w.restart \/ w.send # << >>]
      /\ UNCHANGED <<autoJoinOnInvite, terminated, ws, tickets, pingInterval, intervals>>
      /\ UNCHANGED <<dispatchVars, funcVars, authVars, laterVars>>

InitRouter == routed = NotRouted

\* The handlers are generated once, as by the first connect(); then the
\* server names an operator or not, and channel messages arrive.
NextRouter ==
  \/ /\ lastOps = << >> /\ routed.seq = 0
     /\ \E rooms \in KeyOrders(channels), env \in Envs(Range(channels)) :
          generateCommandHandlers(rooms, env)
  \/ /\ routed.seq = 0
     /\ \E c \in ChannelNames : addChatOPToList(c, "Bob")
  \/ \E c \in ChannelNames, x \in {master, "Bob"} : \E message \in Messages :
       \E env \in EnvsFor(message, [channel |-> c, character |-> x]), rooms \in RoomsFor(message) :
         commandListener([channel |-> c, character |-> x], message, env, rooms)

\* the commands that ask isUserMaster
MasterCommands ==
  {"greload", "grestart", "gjoinchannel", "gstatus", "gdisableinvites",
   "genableinvites", "loadplugin", "unloadplugin"}

\* The same with none but these commands, from the master or from Bob.
NextMasterCommands ==
  \/ /\ lastOps = << >> /\ routed.seq = 0
     /\ \E rooms \in KeyOrders(channels), env \in Envs(Range(channels)) :
          generateCommandHandlers(rooms, env)
  \/ \E c \in ChannelNames, x \in {master, "Bob"} :
       \E message \in {m \in Messages : m.verb \in MasterCommands} :
         \E env \in EnvsFor(message, [channel |-> c, character |-> x]), rooms \in RoomsFor(message) :
           commandListener([channel |-> c, character |-> x], message, env, rooms)

\* ================================================================
\* Rosters and user directory: the built-in listeners of ICH, JCH, LCH,
\* FLN, LIS and STA
\* ================================================================

MaxSnapshot == 2

notRoster ==
  <<throttleVars, dispatchVars, funcVars, pluginVars, authVars, connVars, routerVars, listenerLog, startup, inviteLog>>

\* character names; Object.prototype has a property of the last name
RosterNames == {"Foo", "constructor"}

RosterChannels == {"lounge", "Lounge", "den"}

Genders == {"None", "Female"}

StatusMessages == {"", "afk"}

\* the users of an ICH frame, by identity
Snapshots == UNION {[1..n -> RosterNames] : n \in 0..MaxSnapshot}

\* a plausible slip: the push without the indexOf test
PushUnlessListed_always(list, identity) == Append(list, identity)

\* a list with identity pushed unless indexOf finds it
PushUnlessListed(list, identity) ==
  IF IndexOf(list, identity) = -1 THEN Append(list, identity) ELSE list

RECURSIVE PushAll(_, _, _)
PushAll(list, identities, i) ==
  IF i > Len(identities) THEN list
  ELSE PushAll(PushUnlessListed(list, identities[i]), identities, i + 1)

\* this.usersInChannel[channel], made an empty list when it is no object
ListOrEmpty(roster, channel) ==
  IF channel \in DOMAIN roster THEN roster[channel] ELSE << >>

addUsersToList(roster, args) ==
  LET channel == ToLower(args.channel)
  IN  Put(roster, channel, PushAll(ListOrEmpty(roster, channel), args.users, 1))

addSingleUserToList(roster, args) ==
  LET channel == ToLower(args.channel)
  IN  Put(roster, channel, PushUnlessListed(ListOrEmpty(roster, channel), args.identity))

\* a plausible slip: the identity spliced out of every roster
removeUserFromList_everyChannel(roster, args) ==
  [i \in DOMAIN roster |->
     IF IndexOf(roster[i], args.character) # -1
     THEN Splice1(roster[i], IndexOf(roster[i], args.character))
     ELSE roster[i]]

removeUserFromList(roster, args) ==
  LET channel == ToLower(args.channel)
  IN  IF channel \notin DOMAIN roster THEN roster
      ELSE IF IndexOf(roster[channel], args.character) # -1
      THEN [roster EXCEPT ![channel] = Splice1(@, IndexOf(@, args.character))]
      ELSE roster

\* a plausible slip: only the rosters that were filled by a snapshot
removeUserFromChannels_firstOnly(roster, args) ==
  [i \in DOMAIN roster |->
     IF IndexOf(roster[i], args.character) = 1
     THEN Splice1(roster[i], 1)
     ELSE roster[i]]

removeUserFromChannels(roster, args) ==
  [i \in DOMAIN roster |->
     IF IndexOf(roster[i], args.character) # -1
     THEN Splice1(roster[i], IndexOf(roster[i], args.character))
     ELSE roster[i]]

saveChannelNames(names, args) == Put(names, ToLower(args.channel), args.title)

\* a directory: the own entries of this.users, and what has been written on
\* the values it inherits from Object.prototype
Directory(own, proto) == [users |-> own, inherited |-> proto]

\* the entry of a LIS frame
Character(name, gender, status, statusmsg) == <<name, gender, status, statusmsg>>

RECURSIVE PutAll(_, _, _)
PutAll(own, characters, i) ==
  IF i > Len(characters) THEN own
  ELSE PutAll(Put(own, characters[i][1], characters[i]), characters, i + 1)

addUserListToGlobalState(dir, args) ==
  Directory(PutAll(dir.users, args.characters, 1), dir.inherited)

\* user[k] = value for the ones of gender, status, statusmsg that are not ''
Overwrite(user, gender, status, statusmsg) ==
  [k \in DOMAIN user |->
     IF k = 2 /\ gender # "" THEN gender
     ELSE IF k = 3 /\ status # "" THEN status
     ELSE IF k = 4 /\ statusmsg # "" THEN statusmsg
     ELSE user[k]]

\* `this.users[character] ??= [...]` reads through the prototype chain: for a
\* name that Object.prototype has, the value found is not nullish, nothing
\* is created and the writes go to the inherited value.
onChangeUpdateUserState(dir, args) ==
  LET character == IF args.character # "" THEN args.character ELSE args.identity
  IN  IF character = "" THEN dir
      ELSE IF character \in DOMAIN dir.users
      THEN Directory([dir.users EXCEPT ![character] =
                        Overwrite(@, args.gender, args.status, args.statusmsg)],
                     dir.inherited)
      ELSE IF character \in ObjectPrototypeFns
      THEN Directory(dir.users,
                     [dir.inherited EXCEPT ![character] =
                        Overwrite(@, args.gender, args.status, args.statusmsg)])
      ELSE Directory(Put(dir.users, character,
                         Overwrite(Character(character, "None", "online", ""),
                                   args.gender, args.status, args.statusmsg)),
                     dir.inherited)

Event(kind, args) ==
  [kind |-> kind, args |-> args, roster |-> usersInChannel, users |-> users]

\* ICH: addUsersToList
InitialChannelData(args) ==
  /\ usersInChannel' = addUsersToList(usersInChannel, args)
  /\ lastEvent' = Event("ICH", args)
  /\ UNCHANGED <<channelNames, users, inherited>>
  /\ UNCHANGED notRoster

\* JCH: addSingleUserToList, saveChannelNames
CharacterJoinedChannel(args) ==
  /\ usersInChannel' = addSingleUserToList(usersInChannel, args)
  /\ channelNames' = saveChannelNames(channelNames, args)
  /\ lastEvent' = Event("JCH", args)
  /\ UNCHANGED <<users, inherited>>
  /\ UNCHANGED notRoster

\* LCH: removeUserFromList
CharacterLeftChannel(args) ==
  /\ usersInChannel' = removeUserFromList(usersInChannel, args)
  /\ lastEvent' = Event("LCH", args)
  /\ UNCHANGED <<channelNames, users, inherited>>
  /\ UNCHANGED notRoster

\* FLN: removeUserFromChannels, onChangeUpdateUserState
CharacterWentOffline(args) ==
  /\ usersInChannel' = removeUserFromChannels(usersInChannel, args)
  /\ LET dir == onChangeUpdateUserState(Directory(users, inherited), args)
     IN  users' = dir.users /\ inherited' = dir.inherited
  /\ lastEvent' = Event("FLN", args)
  /\ UNCHANGED channelNames
  /\ UNCHANGED notRoster

\* STA: onChangeUpdateUserState, which connect() registers twice
StatusChanged(args) ==
  /\ LET dir == onChangeUpdateUserState(
                  onChangeUpdateUserState(Directory(users, inherited), args), args)
     IN  users' = dir.users /\ inherited' = dir.inherited
  /\ lastEvent' = Event("STA", args)
  /\ UNCHANGED <<usersInChannel, channelNames>>
  /\ UNCHANGED notRoster

\* the handler applied once per registration
RECURSIVE onChangeTimes(_, _, _)
onChangeTimes(dir, args, n) ==
  IF n = 0 THEN dir ELSE onChangeTimes(onChangeUpdateUserState(dir, args), args, n - 1)

\* NLN: the listeners connect() registers for CHARACTER_CAME_ONLINE
CharacterCameOnline(args) ==
  /\ LET n == Count(Registrations(TRUE), "CHARACTER_CAME_ONLINE:onChangeUpdateUserState")
         dir == onChangeTimes(Directory(users, inherited), args, n)
     IN  users' = dir.users /\ inherited' = dir.inherited
  /\ lastEvent' = Event("NLN", args)
  /\ UNCHANGED <<usersInChannel, channelNames>>
  /\ UNCHANGED notRoster

\* LIS: addUserListToGlobalState
CharacterOnlineList(args) ==
  /\ LET dir == addUserListToGlobalState(Directory(users, inherited), args)
     IN  users' = dir.users /\ inherited' = dir.inherited
  /\ lastEvent' = Event("LIS", args)
  /\ UNCHANGED <<usersInChannel, channelNames>>
  /\ UNCHANGED notRoster

NoTable == [c \in {} |-> << >>]

NoEvent == [kind |-> "", args |-> Undefined, roster |-> NoTable, users |-> NoTable]

InitRoster ==
  /\ usersInChannel = NoTable
  /\ channelNames = NoTable
  /\ users = NoTable
  /\ inherited = [n \in ObjectPrototypeFns |-> Character(n, "", "", "")]
  /\ lastEvent = NoEvent

\* the args of an FLN or STA frame
StateArgs(character, gender, status, statusmsg) ==
  [identity |-> "", character |-> character, gender |-> gender, status |-> status,
   statusmsg |-> statusmsg]

Offline(character) == StateArgs(character, "", "", "")

\* the frames that change the rosters
NextRoster ==
  \/ \E c \in RosterChannels, us \in Snapshots :
       InitialChannelData([channel |-> c, users |-> us])
  \/ \E c \in RosterChannels, u \in RosterNames :
       CharacterJoinedChannel([channel |-> c, identity |-> u, title |-> "Title"])
  \/ \E c \in RosterChannels, u \in RosterNames :
       CharacterLeftChannel([channel |-> c, character |-> u])
  \/ \E u \in RosterNames : CharacterWentOffline(Offline(u))

\* the channels and the characters of the frames below; a COA frame can
\* carry an empty character
OperatorChannels == {"Lounge", "den"}

OperatorCharacters == {"Foo", ""}

\* the frames that change the rosters or the operator table
NextRosterOps ==
  \/ \E c \in OperatorChannels, u \in RosterNames :
       InitialChannelData([channel |-> c, users |-> << u >>])
  \/ \E c \in OperatorChannels, u \in RosterNames :
       CharacterJoinedChannel([channel |-> c, identity |-> u, title |-> "Title"])
  \/ \E c \in OperatorChannels, u \in RosterNames :
       CharacterLeftChannel([channel |-> c, character |-> u])
  \/ \E u \in RosterNames : CharacterWentOffline(Offline(u))
  \/ \E c \in OperatorChannels, x, y \in OperatorCharacters :
       addChatOPsToList(c, << x, y >>)
  \/ \E c \in OperatorChannels, x \in OperatorCharacters : addChatOPToList(c, x)
  \/ \E c \in OperatorChannels, x \in OperatorCharacters : removeChatOPFromList(c, x)

\* the frames that change the user directory
NextUsers ==
  \/ \E u \in RosterNames, g \in Genders, st \in Statuses, m \in StatusMessages :
       CharacterOnlineList([characters |-> << Character(u, g, st, m) >>])
  \/ \E u \in RosterNames, st \in Statuses \cup {""}, m \in StatusMessages :
       StatusChanged(StateArgs(u, "", st, m))
  \/ \E u \in RosterNames, g \in Genders :
       CharacterCameOnline([identity |-> u, character |-> "", gender |-> g,
                            status |-> "online", statusmsg |-> ""])
  \/ \E u \in RosterNames : CharacterWentOffline(Offline(u))

\* ================================================================
\* Listener registry: registrations and removals, with their history
\* ================================================================

MaxRegistered == 3

\* listeners.push(fn)
Pushed(list, fn) == Append(list, fn)

\* const index = listeners.indexOf(fn); if (index !== -1) listeners.splice(index, 1)
Removed(list, fn) ==
  IF IndexOf(list, fn) # -1 THEN Splice1(list, IndexOf(list, fn)) ELSE list

NotLogged == [op |-> "", list |-> "", fn |-> "", before |-> << >>]

\* the entry of an operation on a list, and the one before it
Logged(op, list, fn, before) ==
  [op |-> op, list |-> list, fn |-> fn, before |-> before,
   prev |-> [k \in DOMAIN NotLogged |-> listenerLog[k]]]

\* the list an entry is about, as it is now
ListOf(entry) ==
  IF entry.list = "generic" THEN genericEventListeners ELSE commandListeners[entry.list]

AddCommandListener(command, fn) ==
  /\ Len(commandListeners[command]) < MaxRegistered
  /\ commandListeners' = [commandListeners EXCEPT ![command] = Pushed(@, fn)]
  /\ listenerLog' = Logged("add", command, fn, commandListeners[command])
  /\ UNCHANGED <<genericEventListeners, handler, rosterVars, startup, inviteLog>>
  /\ UNCHANGED <<throttleVars, funcVars, pluginVars, authVars, connVars, routerVars>>

RemoveCommandListener(command, fn) ==
  /\ commandListeners' = [commandListeners EXCEPT ![command] = Removed(@, fn)]
  /\ listenerLog' = Logged("remove", command, fn, commandListeners[command])
  /\ UNCHANGED <<genericEventListeners, handler, rosterVars, startup, inviteLog>>
  /\ UNCHANGED <<throttleVars, funcVars, pluginVars, authVars, connVars, routerVars>>

AddGenericEventListener(fn) ==
  /\ Len(genericEventListeners) < MaxRegistered
  /\ genericEventListeners' = Pushed(genericEventListeners, fn)
  /\ listenerLog' = Logged("add", "generic", fn, genericEventListeners)
  /\ UNCHANGED <<commandListeners, handler, rosterVars, startup, inviteLog>>
  /\ UNCHANGED <<throttleVars, funcVars, pluginVars, authVars, connVars, routerVars>>

RemoveGenericEventListener(fn) ==
  /\ genericEventListeners' = Removed(genericEventListeners, fn)
  /\ listenerLog' = Logged("remove", "generic", fn, genericEventListeners)
  /\ UNCHANGED <<commandListeners, handler, rosterVars, startup, inviteLog>>
  /\ UNCHANGED <<throttleVars, funcVars, pluginVars, authVars, connVars, routerVars>>

InitListeners == listenerLog = NotLogged @@ [prev |-> NotLogged]

\* registrations and removals on the list of one command and on the generic
\* list
NextListeners ==
  \/ \E fn \in Fns : AddCommandListener("PIN", fn)
  \/ \E fn \in Fns : RemoveCommandListener("PIN", fn)
  \/ \E fn \in Fns : AddGenericEventListener(fn)
  \/ \E fn \in Fns : RemoveGenericEventListener(fn)

\* ================================================================
\* Start: the constructor's default room and the joins of CONNECTED
\* ================================================================

\* config.room
Room == "Lounge"

\* what `this.channels[room]` is: parsed.data holds arrays (the schema of the
\* save file admits nothing else), an absent key reads as undefined
TypeOfEntry(chs, room) == IF room \in DOMAIN chs THEN "array" ELSE "undefined"

\* the constructor, for the content of the save file ({} when there is
\* none): channels and the save file as it leaves them
Constructed(file, configRoom) ==
  LET parsed == ParseSaveFile(file)
      room == ToLower(configRoom)
  IN  IF TypeOfEntry(parsed, room) = "null"
      THEN [channels |-> Assign(parsed, room, << >>),
            file |-> updateRoomsConfig(Assign(parsed, room, << >>))]
      ELSE [channels |-> parsed, file |-> file]

\* the JOIN_CHANNEL commands of joinChannelOnConnect, for the keys in order
Joins(rooms) == [i \in DOMAIN rooms |-> [channel |-> ToLower(rooms[i])]]

Started(file, joins, connected) == [file |-> file, joins |-> joins, connected |-> connected]

\* the CONNECTED event: joinChannelOnConnect
joinChannelOnConnect(rooms) ==
  /\ startup' = Started(startup.file, Joins(rooms), TRUE)
  /\ UNCHANGED <<rosterVars, listenerLog, inviteLog>>
  /\ UNCHANGED <<throttleVars, dispatchVars, funcVars, pluginVars, authVars, connVars, routerVars>>

InitStartup == startup = Started(saveFile, << >>, FALSE)

\* constructed from some save file, by the constructor
InitConstructed ==
  /\ \E file \in SaveFiles :
       /\ channels = Constructed(file, Room).channels
       /\ saveFile = Constructed(file, Room).file
       /\ startup = Started(file, << >>, FALSE)
  /\ commandHandlers = [h \in {} |-> [channelName |-> ""]]
  /\ lastOps = << >>
  /\ prevLoad = NoOp
  /\ opCount = 0

NextStart ==
  \/ NextPlugins
  \/ \E rooms \in KeyOrders(channels) : joinChannelOnConnect(rooms)

\* ================================================================
\* Invites: gdisableinvites, genableinvites and the CIU event
\* ================================================================

MaxEnables == 2

InviteListener == "CHANNEL_INVITE_RECEIVED:joinChannelsWhereInvited"

Toggled(toggle, invited, joins) == [toggle |-> toggle, invited |-> invited, joins |-> joins]

\* removeCommandListener(CHANNEL_INVITE_RECEIVED, joinChannelsWhereInvited.bind(lib)):
\* bind makes a new function each time, which indexOf finds in no list
Unregistered(reg) == reg

\* the reply of a command to a character that is not the master
Refuse == sendData

gdisableinvites(character) ==
  /\ IF isUserMaster(master, character)
     THEN /\ registered' = Unregistered(registered)
          /\ inviteLog' = Toggled("disable", FALSE, 0)
          /\ UNCHANGED throttleVars
     ELSE /\ Refuse
          /\ UNCHANGED <<registered, inviteLog>>
  /\ UNCHANGED <<autoJoinOnInvite, terminated, sockets, ws, timers, tickets,
                 pingInterval, intervals, writes, sent>>
  /\ UNCHANGED <<dispatchVars, funcVars, pluginVars, authVars, routerVars>>
  /\ UNCHANGED <<rosterVars, listenerLog, startup>>

genableinvites(character) ==
  /\ IF isUserMaster(master, character)
     THEN /\ registered[InviteListener] < MaxEnables
          /\ registered' = Register(Unregistered(registered), << InviteListener >>)
          /\ inviteLog' = Toggled("enable", FALSE, 0)
          /\ UNCHANGED throttleVars
     ELSE /\ Refuse
          /\ UNCHANGED <<registered, inviteLog>>
  /\ UNCHANGED <<autoJoinOnInvite, terminated, sockets, ws, timers, tickets,
                 pingInterval, intervals, writes, sent>>
  /\ UNCHANGED <<dispatchVars, funcVars, pluginVars, authVars, routerVars>>
  /\ UNCHANGED <<rosterVars, listenerLog, startup>>

\* joinNewChannel(name), once per registered listener
RECURSIVE JoinedTimes(_, _, _, _)
JoinedTimes(w, n, name, env) ==
  IF n = 0 THEN w
  ELSE LET end == Joined(w.channels, w.file, w.handlers, name, env)
       IN  JoinedTimes([channels |-> end.channels, file |-> end.file,
                        handlers |-> end.handlers, ops |-> << end.op >>],
                       n - 1, name, env)

\* the CIU event: every registered joinChannelsWhereInvited joins the channel
onInvite(name, env) ==
  /\ LET n == registered[InviteListener]
         w == JoinedTimes([channels |-> channels, file |-> saveFile,
                           handlers |-> commandHandlers, ops |-> lastOps],
                          n, name, env)
     IN  /\ channels' = w.channels
         /\ saveFile' = w.file
         /\ commandHandlers' = w.handlers
         /\ lastOps' = w.ops
         /\ inviteLog' = Toggled(inviteLog.toggle, TRUE, n)
  /\ UNCHANGED <<prevLoad, opCount>>
  /\ UNCHANGED <<throttleVars, dispatchVars, funcVars, authVars, connVars, routerVars>>
  /\ UNCHANGED <<rosterVars, listenerLog, startup>>

InitInvites == inviteLog = Toggled("", FALSE, 0)

\* the engine after connect(), for either value of config.autoJoinOnInvite
InitInvited ==
  /\ autoJoinOnInvite \in BOOLEAN
  /\ terminated = FALSE
  /\ sockets = << >>
  /\ ws = 0
  /\ timers = << >>
  /\ tickets = << >>
  /\ registered = Register([k \in BuiltinListeners |-> 0], Registrations(autoJoinOnInvite))
  /\ pingInterval = FALSE
  /\ intervals = << >>
  /\ writes = 0
  /\ sent = NoSend

NextInvites ==
  \/ \E c \in {master, "Bob"} : gdisableinvites(c)
  \/ \E c \in {master, "Bob"} : genableinvites(c)
  \/ \E name \in ChannelNames : \E env \in Envs({PluginsLoaded(channels, ToLower(name))}) :
       onInvite(name, env)

InitLater == InitRoster /\ InitListeners /\ InitStartup /\ InitInvites

InitRest == InitAuth /\ InitConn /\ InitRouter /\ InitLater

Init == InitThrottle /\ InitDispatch /\ InitFuncs /\ InitPlugins /\ InitRest

NextThrottle ==
  \/ SendData
  \/ \E id \in DOMAIN calls : SendDataResume(id)
  \/ Tick
  \/ \E v \in 1..MaxFlood : variableChangeHandler(v)

SpecThrottle == Init /\ [][NextThrottle]_vars

SpecDispatch == Init /\ [][NextDispatch]_vars

\* the engine as constructed, with an object about to be inspected
InitCall == InitThrottle /\ InitDispatch /\ InitFuncsCall /\ InitPlugins /\ InitRest

SpecFuncs == InitCall /\ [][NextFuncs]_vars

\* the engine as constructed from some save file
InitSaved == InitThrottle /\ InitDispatch /\ InitFuncs /\ InitPluginsSaved /\ InitRest

SpecPlugins == InitSaved /\ [][NextPlugins]_vars

\* the engine as constructed from some valid configuration
InitConfigured ==
  /\ InitThrottle /\ InitDispatch /\ InitFuncs /\ InitPlugins
  /\ InitAuthAny /\ InitConn /\ InitRouter /\ InitLater

SpecAuth == InitConfigured /\ [][NextAuth]_vars

SpecConn == Init /\ [][NextConn]_vars

\* transport errors and restarts, without the traffic on the open transport
NextReconnect ==
  \/ \E rooms \in KeyOrders(channels), env \in Envs(Range(channels)) : Connect(rooms, env)
  \/ \E i \in DOMAIN tickets, response \in TicketResponses : getTicket(i, response)
  \/ \E i \in DOMAIN sockets : onOpen(i)
  \/ \E i \in DOMAIN sockets : onClose(i)
  \/ \E i \in DOMAIN sockets : onError(i)
  \/ \E t \in DOMAIN timers : \E rooms \in KeyOrders(channels), env \in Envs(Range(channels)) :
       timerFires(t, rooms, env)
  \/ restart

\* timers fire and the ticket endpoint answers
SpecReconnect ==
  /\ Init
  /\ [][NextReconnect]_vars
  /\ WF_vars(\E t \in DOMAIN timers :
               \E rooms \in KeyOrders(channels), env \in Envs(Range(channels)) :
                 timerFires(t, rooms, env))
  /\ WF_vars(\E i \in DOMAIN tickets, response \in TicketResponses : getTicket(i, response))

SpecSend == Init /\ [][NextSend]_vars

SpecRouter == InitSaved /\ [][NextRouter]_vars

SpecRoster == Init /\ [][NextRoster]_vars

\* the verbs of the frames: with an object payload, the error notification,
\* and an unknown one
FrameVerbs == {"MSG", "ERR", "ZZZ"}

\* inbound frames, with listeners of ERR and generic listeners
NextFrames ==
  \/ addCommandListener("ERR", "f")
  \/ addGenericEventListener("f")
  \/ \E verb \in FrameVerbs, rem \in Remainders :
       \E out \in [DOMAIN ListenersFor(verb) -> Outcomes] : OnMessage(verb, rem, out)
  \/ \E i \in 1..MaxListeners : Settle(i)
  \/ OnMessageResume

SpecFrames == Init /\ [][NextFrames]_vars

\* the engine as the constructor leaves it, for some save file
InitStart ==
  /\ InitThrottle /\ InitDispatch /\ InitFuncs /\ InitConstructed
  /\ InitAuth /\ InitConn /\ InitRouter /\ InitRoster /\ InitListeners /\ InitInvites

SpecStart == InitStart /\ [][NextStart]_vars

\* the connected engine, for some save file and either invite setting
InitInviting ==
  /\ InitThrottle /\ InitDispatch /\ InitFuncs /\ InitPluginsSaved
  /\ InitAuth /\ InitInvited /\ InitRouter /\ InitLater

SpecInvites == InitInviting /\ [][NextInvites]_vars

SpecListeners == Init /\ [][NextListeners]_vars

SpecUsers == Init /\ [][NextUsers]_vars

SpecRosterOps == Init /\ [][NextRosterOps]_vars

SpecMasterCommands == InitSaved /\ [][NextMasterCommands]_vars

\* ---------------------------------------------------------------- claims

\* C4: with a constant floodLimit F > 0, any two consecutive dispatches
\* performed by the throttler are at least F seconds apart.
C4_MinSpacing ==
  ~floodChanged =>
    \A i \in 2..Len(dispatched) : dispatched[i] - dispatched[i-1] >= floodLimit

\* C5: from a state where a send has just been dispatched and nothing is
\* pending, the k-th of the calls issued back-to-back in that clock second
\* waits k * F and is scheduled k * F seconds after the burst began, so that
\* consecutive scheduled times differ by F and increase strictly.
C5_BurstSpacing ==
  \A id \in DOMAIN calls :
    calls[id].burstK > 0 =>
      /\ calls[id].wait = calls[id].burstK * calls[id].F
      /\ calls[id].due = calls[id].calledAt + calls[id].burstK * calls[id].F
      /\ calls[id].burstK > 1 =>
           /\ calls[id-1].burstK = calls[id].burstK - 1
           /\ calls[id].due - calls[id-1].due = calls[id].F
           /\ calls[id].due > calls[id-1].due

\* C1: the listeners of a known verb are invoked only if the payload
\* validates against the verb's schema; a frame without payload invokes them
\* only if the schema accepts an absent payload.
C1_InvokedOnlyIfValid ==
  (handler.kind = "typed" /\ Len(handler.invoked) > 0) =>
    SafeParse(SchemaOf(handler.verb), handler.arg)

\* C2: every listener of the command type of a validated frame is invoked
\* exactly once, also when one of them throws or rejects, and the handler
\* ends only when all of them have settled.
C2_AllListenersInvoked ==
  (handler.kind = "typed" /\ SafeParse(SchemaOf(handler.verb), handler.arg)) =>
    /\ Len(handler.invoked) = handler.n
    /\ handler.pc = "done" =>
         \A i \in DOMAIN handler.invoked : handler.invoked[i] # "pending"

\* C3: a frame with an unknown verb invokes every generic listener exactly
\* once with the raw text and no type-specific listener, whatever follows
\* the verb.
C3_UnknownVerbToGeneric ==
  (handler.pc # "idle" /\ handler.verb \in UnknownVerbs) =>
    /\ handler.kind # "typed"
    /\ Len(handler.invoked) = handler.n
    /\ handler.n > 0 => (handler.kind = "generic" /\ handler.arg = "dataString")

\* the callable members defined on the object or on a class of its chain
CallableMembers(chain) == UNION {chain[k].fns : k \in DOMAIN chain}

\* C10: internalGetAllFuncs returns exactly the callable members defined on
\* the instance or on a class of its prototype chain below Object, minus
\* constructor, processCommand, ignoreProperties and the names the plugin
\* declares in ignoreProperties, each once.
C10_AllCallableMembers ==
  funcs # NotYet =>
    /\ Range(funcs) =
         CallableMembers(obj) \ (defaultIgnoreProperties \cup IgnoreProperties(obj, 1))
    /\ Len(funcs) = Cardinality(Range(funcs))

C5_Witness ==
  \E id \in DOMAIN calls :
    /\ calls[id].burstK = 3
    /\ calls[id].F = 2
    /\ calls[id-2].state = "sent"
    /\ calls[id-2].sentAt = calls[id-2].due


\* C6: in a channel where P is not loaded and P loads with at least one
\* command, internalLoadPlugin(P) directly followed by internalUnloadPlugin(P)
\* leaves the loaded list and the save file as they were before the load.
C6_LoadUnloadRoundTrip ==
  \A i \in DOMAIN lastOps :
    (/\ lastOps[i].op = "unload"
     /\ prevLoad.op = "load"
     /\ prevLoad.key = lastOps[i].key
     /\ prevLoad.name = lastOps[i].name
     /\ prevLoad.outcome = "loaded"
     /\ FindIndex(prevLoad.before, prevLoad.name) = -1)
    => (/\ lastOps[i].after = prevLoad.before
        /\ lastOps[i].savedAfter = prevLoad.savedBefore)

\* C7: internalUnloadPlugin(name) for a name that is not in the loaded list
\* changes neither the loaded list nor the save file.
C7_UnloadAbsentIsNoOp ==
  \A i \in DOMAIN lastOps :
    (lastOps[i].op = "unload" /\ FindIndex(lastOps[i].before, lastOps[i].name) = -1)
    => (/\ lastOps[i].after = lastOps[i].before
        /\ lastOps[i].savedAfter = lastOps[i].savedBefore)

\* C8: a failing internalLoadPlugin(name) leaves the loaded list as it was,
\* whatever the list held, and sends a diagnostic to the channel.
C8_FailedLoadKeepsList ==
  \A i \in DOMAIN lastOps :
    (lastOps[i].op = "load" /\ lastOps[i].outcome \in {"notfound", "noclass", "throws"})
    => (/\ lastOps[i].after = lastOps[i].before
        /\ Len(lastOps[i].msgs) > 0)

\* C9: a CommandHandler constructed for a channel whose list names k >= 1
\* distinct loadable plugins instantiates each of them exactly once, and the
\* list then holds exactly those k names, each with an instantiated plugin.
C9_LoadOnStartEachOnce ==
  \A i \in DOMAIN lastOps :
    LET r == lastOps[i]
    IN  (/\ r.op = "start"
         /\ Len(r.before) >= 1
         /\ \A a, b \in DOMAIN r.before : a # b => r.before[a].name # r.before[b].name
         /\ r.loadable)
        => (/\ Len(r.constructed) = Len(r.before)
            /\ Range(r.constructed) = Range(Names(r.before))
            /\ Len(r.after) = Len(r.before)
            /\ Range(Names(r.after)) = Range(Names(r.before))
            /\ \A a \in DOMAIN r.after : r.after[a].instanciatedPlugin # "null")


\* C11: for a trigger message with verb v that reaches a channel's handler,
\* every loaded plugin of the channel exposing v has its v invoked exactly
\* once, and the router's built-in v is invoked if and only if no loaded
\* plugin exposes v.
C11_PluginsThenBuiltin ==
  (routed.handled /\ routed.trigger /\ routed.verb # "processCommand")
  => /\ routed.plugins = routed.exposing
     /\ routed.verb \in BuiltinCommands
        => (routed.builtin = routed.verb <=> routed.exposing = << >>)

\* C12: a trigger message whose verb no loaded plugin exposes and which is no
\* built-in command invokes nothing, sends nothing, reports no error and
\* changes no state.
C12_UnmatchedIgnored ==
  (/\ routed.handled
   /\ routed.trigger
   /\ routed.exposing = << >>
   /\ routed.verb \notin BuiltinCommands)
  => /\ routed.plugins = << >>
     /\ routed.builtin = ""
     /\ routed.msgs = << >>
     /\ ~routed.error
     /\ ~routed.changed

\* C13: a built-in command invoked by a sender who is neither an operator of
\* the channel nor the master only replies with the insufficient-rights
\* message.
C13_BuiltinsCheckRights ==
  (/\ routed.builtin \in BuiltinCommands
   /\ ~routed.operator
   /\ ~routed.master)
  => /\ routed.msgs = << InsufficientRights >>
     /\ ~routed.error
     /\ ~routed.changed

\* C14: isUserMaster(x) is true iff x equals config.master ignoring case, and
\* isUserChatOP(x, c) is true iff x is in the operator list of c (lowercased)
\* or isUserMaster(x) is true.
C14_MasterAndOperator ==
  asked # NotAsked =>
    /\ asked.master = (ToLower(asked.username) = ToLower(master))
    /\ asked.chatOP =
         (\/ asked.username \in Range(getChatOPList(chatOPsInChannel, asked.channel))
          \/ asked.master)


\* C15: the close that restart() causes does not terminate the process.
C15_RestartSurvives ==
  \A i \in DOMAIN sockets :
    (/\ sockets[i].closedBy = "restart"
     /\ sockets[i].wasOpen
     /\ sockets[i].readyState = "CLOSED") => ~terminated

\* C16: a close event of any socket terminates the process and schedules
\* nothing; once terminated there is no connect(), no transport, no timer
\* callback, no write and no frame dispatch.
C16_CloseTerminates ==
  [][/\ (\E i \in DOMAIN sockets :
           sockets[i].readyState # "CLOSED" /\ sockets'[i].readyState = "CLOSED")
        => (terminated' /\ timers' = timers /\ tickets' = tickets)
     /\ terminated
        => UNCHANGED <<tickets, sockets, ws, timers, writes, sent, handler, registered>>
    ]_vars

C16_Witness ==
  /\ terminated
  /\ \E i \in DOMAIN sockets : sockets[i].readyState = "CLOSED"
  /\ \E t \in DOMAIN timers : timers[t].state = "pending"

FiredErrorTimers ==
  {t \in DOMAIN timers : timers[t].kind = "error" /\ timers[t].state = "fired"}

\* C17: an error event never terminates the process and schedules one
\* connect() after ReconnectDelay; unless the process terminates first, that
\* connect() runs exactly once, asks for a ticket and opens a new transport.
C17_ErrorReconnects ==
  /\ [][(\E i \in DOMAIN sockets : sockets'[i].errors > sockets[i].errors)
        => /\ ~terminated'
           /\ timers' = Append(timers, Timer("error", ReconnectDelay, ""))
           /\ tickets' = tickets]_vars
  /\ [](/\ \A t \in FiredErrorTimers :
             /\ timers[t].connect \in DOMAIN tickets
             /\ tickets[timers[t].connect].cause = "error"
        /\ Cardinality({c \in DOMAIN tickets : tickets[c].cause = "error"})
             = Cardinality(FiredErrorTimers))
  /\ \A t \in 1..MaxTimers :
       (t \in DOMAIN timers /\ timers[t].kind = "error")
         ~> (\/ terminated
             \/ /\ t \in FiredErrorTimers
                /\ tickets[timers[t].connect].socket # 0)

C17_Witness ==
  /\ ~terminated
  /\ \E t \in FiredErrorTimers : tickets[timers[t].connect].socket # 0

\* C18: after any number of connect() calls every built-in handler is
\* registered as often as after the first one.
C18_ConnectIdempotent ==
  Len(tickets) >= 1 =>
    registered = Register([k \in BuiltinListeners |-> 0], Registrations(autoJoinOnInvite))

\* C19: a connect() whose ticket acquisition fails is rejected, opens no
\* transport and leaves the process running without a retry.
C19_TicketFailureRejects ==
  \A i \in DOMAIN tickets :
    tickets[i].response \in {"noTicket", "err", "notJson"}
    => (tickets[i].state = "rejected" /\ tickets[i].socket = 0)

\* C20: sendCommand with a payload that fails the schema, such as a
\* channel-join with an empty channel name, returns false and writes
\* nothing; a write happens only for a valid payload on an open transport.
C20_InvalidPayloadNotSent ==
  /\ ~sent.valid => (~sent.result /\ ~sent.wrote)
  /\ sent.wrote => (sent.valid /\ sent.open)
  /\ (sent.command = "JCH" /\ sent.object = [channel |-> ""])
     => (~sent.result /\ ~sent.wrote)

\* C21: after a went-offline event for U, U is in the roster of no channel,
\* whatever the rosters held before.
C21_OfflineLeavesEveryRoster ==
  lastEvent.kind = "FLN" =>
    \A c \in DOMAIN usersInChannel :
      lastEvent.args.character \notin Range(usersInChannel[c])

\* the went-offline event found U in two rosters, behind another character
\* in one of them, and took it out of both
C21_Witness ==
  /\ lastEvent.kind = "FLN"
  /\ Cardinality({c \in DOMAIN lastEvent.roster :
                    lastEvent.args.character \in Range(lastEvent.roster[c])}) >= 2
  /\ \E c \in DOMAIN lastEvent.roster :
       IndexOf(lastEvent.roster[c], lastEvent.args.character) = 2
  /\ \A c \in DOMAIN usersInChannel :
       lastEvent.args.character \notin Range(usersInChannel[c])

\* the entry the directory is to hold for U after an event with args
Updated(before, args) ==
  LET U == args.character
      base == IF U \in DOMAIN before THEN before[U] ELSE <<U, "None", "online", "">>
  IN  <<U,
        IF args.gender # "" THEN args.gender ELSE base[2],
        IF args.status # "" THEN args.status ELSE base[3],
        IF args.statusmsg # "" THEN args.statusmsg ELSE base[4]>>

\* C22: a status-changed or went-offline event for U leaves the directory
\* with U's entry created if absent, its gender, status and status message
\* overwritten exactly where the event carries a value, and every other entry
\* as it was.
C22_IncrementalUpdate ==
  lastEvent.kind \in {"STA", "FLN"} =>
    /\ DOMAIN users = DOMAIN lastEvent.users \cup {lastEvent.args.character}
    /\ users[lastEvent.args.character] = Updated(lastEvent.users, lastEvent.args)
    /\ \A u \in DOMAIN lastEvent.users \ {lastEvent.args.character} :
         users[u] = lastEvent.users[u]

\* the verbs that end in a channel join, a plugin load, a plugin unload or a
\* flush of the plugin list
PersistingVerbs == {"gjoinchannel", "loadplugin", "unloadplugin", "flushpluginslist"}

\* the last channel message ran one of them to its end
Persisted ==
  /\ routed.seq > 0
  /\ routed.verb \in PersistingVerbs
  /\ routed.builtin = routed.verb
  /\ ~routed.error
  /\ \A m \in Range(routed.msgs) :
       m \notin {InsufficientRights, "Invalid Arguments for !loadplugin.",
                 "Invalid Arguments for !unloadplugin."}

\* C23: after a completed channel join, plugin load, plugin unload or
\* flushpluginslist the save file holds, for every channel, the names of the
\* plugins the channel has in memory.
C23_SavedEqualsLoaded == Persisted => saveFile = updateRoomsConfig(channels)

\* the last operation took a listener off a list that did not hold it
RemovedAbsent ==
  /\ listenerLog.op = "remove"
  /\ listenerLog.fn \notin Range(listenerLog.before)

\* the last two operations added a listener to a list and removed it again
AddedThenRemoved ==
  /\ listenerLog.op = "remove"
  /\ listenerLog.prev.op = "add"
  /\ listenerLog.prev.list = listenerLog.list
  /\ listenerLog.prev.fn = listenerLog.fn

\* C24: removing a listener that is not in the list leaves the list as it
\* was, and add(f) followed by remove(f) leaves the list equal, entry by
\* entry, to the list before the add, whatever that list held.
C24_AddRemoveRestores ==
  /\ RemovedAbsent => ListOf(listenerLog) = listenerLog.before
  /\ AddedThenRemoved => ListOf(listenerLog) = listenerLog.prev.before

\* the default room was not in the save file the constructor read
DefaultRoomAbsent == ToLower(Room) \notin DOMAIN startup.file

\* C25: constructed with a default room R that the save file does not name,
\* the engine has the key lowercase(R) with an empty plugin list, in memory
\* and in the save file, and a CONNECTED event that follows sends a join
\* for lowercase(R).
C25_DefaultRoomJoined ==
  DefaultRoomAbsent =>
    /\ opCount = 0 =>
         /\ ToLower(Room) \in DOMAIN channels
         /\ ToLower(Room) \in DOMAIN saveFile
         /\ channels[ToLower(Room)] = << >>
         /\ saveFile[ToLower(Room)] = << >>
    /\ (opCount = 0 /\ startup.connected) =>
         \E i \in DOMAIN startup.joins : startup.joins[i].channel = ToLower(Room)

\* C26: an invite that follows the master's gdisableinvites causes no join,
\* and an invite that follows the master's genableinvites, however often it
\* was issued, causes exactly one join of the invited channel.
C26_InviteToggle ==
  inviteLog.invited =>
    /\ inviteLog.toggle = "disable" => inviteLog.joins = 0
    /\ inviteLog.toggle = "enable" => inviteLog.joins = 1

\* the transports whose event handlers can still run
Live == {i \in DOMAIN sockets : sockets[i].readyState # "CLOSED"}

\* the transports opened by a connect() call
OpenedByConnect == {tickets[i].socket : i \in {j \in DOMAIN tickets : tickets[j].socket # 0}}

\* C27: every transport was opened by a connect() call, one per call (an
\* identify retry opens none), and no two transports have live event
\* handlers at the same time.
C27_OneTransport ==
  /\ DOMAIN sockets = OpenedByConnect
  /\ Cardinality(Live) <= 1

Armed == {k \in DOMAIN intervals : intervals[k].state = "armed"}

\* C28: at most one keepalive ping timer is armed at any time, and every
\* timer was armed by an open handler whose identify send had succeeded.
C28_OnePingTimer ==
  /\ Cardinality(Armed) <= 1
  /\ \A k \in DOMAIN intervals :
       intervals[k].after.command = "IDN" /\ intervals[k].after.wrote

\* a second transport opened and identified: its timer replaced the first
C28_Witness ==
  /\ Len(intervals) = 2
  /\ intervals[1].state = "cleared"
  /\ intervals[2].state = "armed"

\* the handler's last activation ended in its catch block: JSON.parse threw,
\* or a listener threw while the list was mapped
Caught(act) ==
  /\ act.pc = "done"
  /\ \/ ParseArgument(act.rem) = "throws"
     \/ \E i \in DOMAIN act.invoked : act.invoked[i] = "thrown"

\* a step of the handler that is the arrival of a frame: the lists stay, and
\* it is neither a promise settling nor the handler resuming after its await
FrameStep ==
  /\ UNCHANGED <<commandListeners, genericEventListeners>>
  /\ ~ \E i \in DOMAIN handler.invoked :
         handler.invoked[i] = "pending" /\ handler' = [handler EXCEPT !.invoked[i] = "settled"]
  /\ ~ (handler.pc = "awaiting" /\ handler' = [handler EXCEPT !.pc = "done"])

\* C29: an exception raised while a frame is processed ends in the handler's
\* catch block; it leads to exactly one throttled private message to the
\* master when the frame's verb is not ERR, and to no message when it is.
C29_CaughtAndReportedOnce ==
  [][(FrameStep /\ Caught(handler')) =>
       /\ handler'.reported = (handler'.verb # "ERR")
       /\ handler'.verb # "ERR" => Len(calls') = Len(calls) + 1
       /\ handler'.verb = "ERR" => calls' = calls]_vars

\* JSON.parse threw on a frame that is not ERR, after an earlier report
C29_Witness ==
  /\ Caught(handler)
  /\ handler.rem = "bad"
  /\ handler.verb = "MSG"
  /\ handler.reported
  /\ Len(calls) = 2
  /\ commandListeners["ERR"] # << >>

\* C30: an exception thrown by a plugin command or a built-in handler while a
\* channel message is routed is caught and relayed to the master by a private
\* message that names the command and the channel.
C30_ErrorRelayedToMaster ==
  routed.error =>
    \E i \in DOMAIN routed.report :
      /\ routed.report[i].command = "PRI"
      /\ routed.report[i].recipient = master
      /\ routed.report[i].about.channel = routed.channel

\* the keys of a table that are not their own lower-case form
MixedCaseKeys(table) == {k \in DOMAIN table : ToLower(k) # k}

\* C31: every key of the channel map, the router table, the roster table and
\* the operator table is lower-case, whatever the case of the channel name a
\* chat command arrives with.
C31_LowercaseKeys ==
  /\ MixedCaseKeys(channels) = {}
  /\ MixedCaseKeys(commandHandlers) = {}
  /\ MixedCaseKeys(usersInChannel) = {}
  /\ MixedCaseKeys(chatOPsInChannel) = {}

\* C32: after a came-online event for an identity the directory did not
\* hold, the directory holds an entry for it with gender None, status online
\* and an empty status message.
C32_CameOnlineCreatesEntry ==
  (lastEvent.kind = "NLN" /\ lastEvent.args.identity \notin DOMAIN lastEvent.users) =>
    /\ lastEvent.args.identity \in DOMAIN users
    /\ users[lastEvent.args.identity] = <<lastEvent.args.identity, "None", "online", "">>

\* C33: commandsInQueue is the number of sendData calls that have entered
\* and not yet reached their dispatch; it is never negative, and it is 0
\* whenever no call is pending.
C33_QueueCountsPending ==
  /\ commandsInQueue = Cardinality(Waiting)
  /\ commandsInQueue >= 0
  /\ Waiting = {} => commandsInQueue = 0

\* two calls are suspended while an earlier suspended call has dispatched
C33_Witness ==
  /\ Cardinality(Waiting) = 2
  /\ \E id \in DOMAIN calls : calls[id].state = "sent" /\ calls[id].wait > 0

\* the sendData calls that took the wait branch
Waited == {id \in DOMAIN calls : calls[id].waited}

\* C34 as stated: some sendData call took the wait branch with a wait that
\* is negative or zero.
C34_NonPositiveWait == \E id \in Waited : calls[id].wait <= 0

\* C34, amended: every sendData call that takes the wait branch computes a
\* positive wait; with elapsed < F and at least the call itself in the queue
\* the wait is at least commandsInQueue * F - (F - 1).
C34_WaitPositive ==
  \A id \in Waited :
    /\ calls[id].wait > 0
    /\ calls[id].elapsed >= 0 =>
         calls[id].wait >= calls[id].queued * calls[id].F - (calls[id].F - 1)

\* a call in the second after a dispatch: the truncated clock gives
\* elapsed = F - 1 and the wait is one second
C34_Witness ==
  \E id \in Waited :
    /\ calls[id].F = 2
    /\ calls[id].elapsed = 1
    /\ calls[id].queued = 1
    /\ calls[id].wait = 1

\* a list that holds no entry twice
NoTwice(list) == \A i, j \in DOMAIN list : list[i] = list[j] => i = j

\* C35: no channel's roster holds the same identity twice, and after a roster
\* snapshot the channel's roster holds exactly the identities it held before
\* and those of the snapshot (the ones it held keep their places).
C35_RosterIsSet ==
  /\ \A c \in DOMAIN usersInChannel : NoTwice(usersInChannel[c])
  /\ lastEvent.kind = "ICH" =>
       LET channel == ToLower(lastEvent.args.channel)
           before == ListOrEmpty(lastEvent.roster, channel)
       IN  /\ channel \in DOMAIN usersInChannel
           /\ Range(usersInChannel[channel]) = Range(before) \cup Range(lastEvent.args.users)
           /\ SubSeq(usersInChannel[channel], 1, Len(before)) = before

\* a snapshot that names one identity twice and one the roster already held
C35_Witness ==
  /\ lastEvent.kind = "ICH"
  /\ ~NoTwice(lastEvent.args.users)
  /\ Range(ListOrEmpty(lastEvent.roster, ToLower(lastEvent.args.channel)))
       \cap Range(lastEvent.args.users) # {}
  /\ Len(usersInChannel[ToLower(lastEvent.args.channel)]) = 2

\* a step of the LCH listener
LeftStep == lastEvent' # lastEvent /\ lastEvent'.kind = "LCH"

\* C36: an LCH frame for (channel, character) takes the character out of that
\* channel's roster and leaves every other roster, the operator table and the
\* user directory as they were; no roster frame changes the operator table
\* and no operator frame changes a roster.
C36_RosterAndOperatorsApart ==
  [][/\ LeftStep =>
          LET channel == ToLower(lastEvent'.args.channel)
          IN  /\ DOMAIN usersInChannel' = DOMAIN usersInChannel
              /\ \A c \in DOMAIN usersInChannel \ {channel} :
                   usersInChannel'[c] = usersInChannel[c]
              /\ channel \in DOMAIN usersInChannel =>
                   lastEvent'.args.character \notin Range(usersInChannel'[channel])
              /\ chatOPsInChannel' = chatOPsInChannel
              /\ users' = users /\ inherited' = inherited
     /\ lastEvent' # lastEvent => chatOPsInChannel' = chatOPsInChannel
     /\ chatOPsInChannel' # chatOPsInChannel =>
          /\ usersInChannel' = usersInChannel
          /\ users' = users /\ inherited' = inherited
    ]_vars

\* the character has left a channel where it was listed and is an operator,
\* and is still listed in another channel
C36_Witness ==
  /\ lastEvent.kind = "LCH"
  /\ LET channel == ToLower(lastEvent.args.channel)
         U == lastEvent.args.character
     IN  /\ channel \in DOMAIN lastEvent.roster
         /\ U \in Range(lastEvent.roster[channel])
         /\ U \notin Range(usersInChannel[channel])
         /\ \E c \in DOMAIN usersInChannel \ {channel} : U \in Range(usersInChannel[c])
         /\ channel \in DOMAIN chatOPsInChannel
         /\ U \in Range(chatOPsInChannel[channel])

\* C37: no channel's operator list holds an empty identity or the same
\* identity twice.
C37_OperatorSetsClean ==
  \A c \in DOMAIN chatOPsInChannel :
    /\ "" \notin Range(chatOPsInChannel[c])
    /\ NoTwice(chatOPsInChannel[c])

\* the last message was one of these commands, from a character that is not
\* the master whatever the case, where no loaded plugin exposes the verb
RefusedCase ==
  /\ routed.seq > 0
  /\ routed.trigger
  /\ routed.verb \in MasterCommands
  /\ ToLower(routed.character) # ToLower(master)
  /\ routed.exposing = << >>

\* C38: such a message changes neither the channel map, the loaded-plugin
\* lists, the listener lists, the connection nor the saved mapping, and all
\* it sends is a message to the channel it came from.
C38_NonMasterChangesNothing ==
  RefusedCase =>
    /\ ~routed.changed
    /\ \A i \in DOMAIN routed.report :
         /\ routed.report[i].command = "MSG"
         /\ routed.report[i].channel = ToLower(routed.channel)
         /\ routed.report[i].recipient = ""
    /\ routed.handled /\ ~routed.error => routed.msgs # << >>

\* a loadplugin with a valid name from someone else: refused with a message
C38_Witness ==
  /\ RefusedCase
  /\ routed.verb = "loadplugin"
  /\ routed.argument # ""
  /\ routed.handled
  /\ routed.builtin = "loadplugin"
  /\ routed.msgs = << InsufficientRights >>

\* C39: no channel's loaded-plugin list holds two entries of one name.
C39_DistinctPluginNames ==
  /\ \A c \in DOMAIN channels : NoTwice(Names(channels[c]))
  /\ \A k \in DOMAIN commandHandlers :
       NoTwice(Names(PluginsLoaded(channels, commandHandlers[k].channelName)))

\* a plugin that was listed first of two has been loaded again: it is
\* listed once, now last
C39_Witness ==
  /\ Len(lastOps) = 1
  /\ lastOps[1].op = "load"
  /\ lastOps[1].outcome = "loaded"
  /\ Len(lastOps[1].before) = 2
  /\ lastOps[1].before[1].name = lastOps[1].name
  /\ Len(lastOps[1].after) = 2
  /\ lastOps[1].after[2].name = lastOps[1].name
  /\ PluginsLoaded(channels, lastOps[1].channel) = lastOps[1].after

\* C40: every sendData call, the first one included, finds
\* lastTimeCommandReceived not later than the clock: the elapsed time it
\* computes is not negative and its wait is at most commandsInQueue * floodLimit.
C40_ElapsedNonNegative ==
  \A id \in DOMAIN calls :
    /\ calls[id].elapsed >= 0
    /\ calls[id].wait <= calls[id].queued * calls[id].F

====
